---- MODULE Spec2Model ----
(***************************************************************************)
(* A model of the #[packet] decorator of pnet_macros                       *)
(* (src/pnet_macros/src/decorator.rs): the type parser, the directive      *)
(* extractor make_packet, the layout/codegen driver and the accessors and  *)
(* mutators it emits, executed over a byte buffer.                         *)
(*                                                                         *)
(* Strings of the program are sequences of one-character strings, so that  *)
(* prefixes, suffixes and digits are computed and not assumed.             *)
(***************************************************************************)
EXTENDS Integers, Sequences, FiniteSets, TLC

VARIABLES
    mode,       \* which part of the program this behaviour exercises
    ty_str,     \* parse_ty: the type name handed to parse_ty
    ty_ret,     \* parse_ty: its return value (Unset before the call)
    packet,     \* the byte buffer a generated view borrows (self.packet)
    layout,     \* the field whose accessors run: what the driver knew when it emitted them
    val,        \* the argument of the last set_X call (Unset before the first)
    got,        \* the return value of the last get_X call (Unset after a set_X)
    written,    \* the byte subscripts the last set_X call assigned
    called,     \* the accessor or mutator called last ("none" before the first)
    panicked,   \* the last call panicked (a failed assert!, unwrap or slice)
    item,       \* generate_packet: the annotated item (its shape, visibility, fields)
    pc,         \* generate_packet: the statement the decorator is at
    fi,         \* make_packet: the field of sd.fields being read (from 1)
    cur,        \* make_packet: is_payload, packet_length, construct_with, seen
    payload_span, \* make_packet: the field of the first #[payload], or None
    fields,     \* make_packet: the Field values pushed so far
    packets,    \* generate_packet: what make_packets returned (Unset before)
    diags,      \* the diagnostics given to ecx.span_err and ecx.span_note, in order
    in_attrs,   \* input read: the attributes of the field being read, in order
    in_count,   \* input read: the attributes read in the item so far
    in_payload_fields, \* input read: the fields that carry #[payload], in order
    in_dup,     \* input read: some field had two attributes of one name
    in_types,   \* input read: the type texts of the fields read, in order
    in_clean,   \* input read: per make_packet call, no diagnostic was reported in it
    vi,         \* make_packets: the variant being read (from 1; 1 for a struct)
    vec,        \* make_packets: the Packets made so far
    pindex,     \* generate_packet: the packet of the loop over packets (from 1)
    sd_names,   \* make_packet: the names of the fields of sd
    own,        \* make_packet: the field that carries the length attribute (from 1)
    tt_tokens,  \* make_packet: the token trees of the length expression
    tokens_packet, \* parse_length_expr: what it returned and reported
    impl,       \* generate_packet_impl: its parameters and locals
    impls_ret,  \* generate_packet_impls: ret
    emitted     \* the items given to push, in order

tyVars == <<ty_str, ty_ret>>
execVars == <<packet, layout, val, got, written, called, panicked>>
inputVars == <<in_attrs, in_count, in_payload_fields, in_dup, in_types>>
makeVars == <<fi, cur, payload_span, fields, packets>>
implVars == <<impl, impls_ret, emitted>>
batchVars == <<vi, vec, pindex, in_clean>>
genVars == <<item, pc, makeVars, diags, inputVars, implVars, batchVars>>
exprVars == <<sd_names, own, tt_tokens, tokens_packet>>

None == [kind |-> "None"]
Some(x) == [kind |-> "Some", val |-> x]
Unset == [kind |-> "Unset"]

Big == "Big"
Little == "Little"

(***************************************************************************)
(* Bounds of the model.                                                    *)
(***************************************************************************)
\* longest type name handed to parse_ty
MaxNameLen == 5
\* largest bit_offset at which a primitive field starts
MaxBitOffset == 8
\* largest width of a primitive field whose accessors are executed
MaxWidth == 16
\* largest sum of the length expressions of the fields before a field
MaxVarLen == 1
\* largest value of the length expression of a vector field
MaxLength == 2
\* most bytes handed to set_X of a Vec<u8> field
MaxVals == 3
\* most packets handed to set_X of a Vec<Misc> field, and the bytes of each
MaxElems == 2
MaxElemSize == 2
\* most fields of an annotated struct
MaxFields == 2
\* most attributes on the fields of one item
MaxAttrs == 3
\* most variants of an annotated enum
MaxVariants == 2
\* most bytes of the buffer an iterable walks
MaxIterBuf == 3

(***************************************************************************)
(* Characters.                                                             *)
(***************************************************************************)
Digits == {"0", "1", "2", "3", "4", "5", "6", "7", "8", "9"}

DigitVal(c) ==
    CASE c = "0" -> 0 [] c = "1" -> 1 [] c = "2" -> 2 [] c = "3" -> 3
      [] c = "4" -> 4 [] c = "5" -> 5 [] c = "6" -> 6 [] c = "7" -> 7
      [] c = "8" -> 8 [] c = "9" -> 9

\* the characters type names are drawn from: enough for u<w>, u<w>be, u<w>le
\* and for the malformed names uable, u21re, i21be of test_parse_ty
NameChars == {"u", "i", "a", "b", "l", "e", "r", "0", "1", "2"}

RECURSIVE SeqsUpTo(_, _)
SeqsUpTo(S, n) ==
    IF n = 0 THEN {<<>>}
    ELSE LET shorter == SeqsUpTo(S, n - 1)
         IN shorter \cup {Append(s, c) : s \in {t \in shorter : Len(t) = n - 1}, c \in S}

\* the type names of at most n characters
TypeNames(n) == SeqsUpTo(NameChars, n)

(***************************************************************************)
(* parse_ty, decorator.rs 940-967.                                         *)
(***************************************************************************)
\* number of characters of s, from position i on, that are digits
RECURSIVE DigitRun(_, _)
DigitRun(s, i) ==
    IF i > Len(s) \/ s[i] \notin Digits THEN 0 ELSE 1 + DigitRun(s, i + 1)

\* Regex ^u([0-9]+)(be|le)?$ : the captures (group 1, group 2) or None.
\* [0-9]+ is greedy and what follows it is no digit, so group 1 is the whole
\* run of digits after the u.
ReCaptures(ty) ==
    IF Len(ty) < 2 \/ ty[1] # "u" THEN None
    ELSE LET d == DigitRun(ty, 2)
             rest == SubSeq(ty, 2 + d, Len(ty))
         IN IF d = 0 THEN None
            ELSE IF rest = <<>>
                 THEN Some([g1 |-> SubSeq(ty, 2, 1 + d), g2 |-> None])
            ELSE IF rest \in {<<"b", "e">>, <<"l", "e">>}
                 THEN Some([g1 |-> SubSeq(ty, 2, 1 + d), g2 |-> Some(rest)])
            ELSE None

\* str::parse::<usize> of a run of digits (names of at most MaxNameLen
\* characters stay far below usize::MAX, where parse would fail)
RECURSIVE ParseUsize(_)
ParseUsize(ds) ==
    IF ds = <<>> THEN 0
    ELSE 10 * ParseUsize(SubSeq(ds, 1, Len(ds) - 1)) + DigitVal(ds[Len(ds)])

parse_ty(ty) ==
    LET c == ReCaptures(ty)
    IN IF c = None THEN None
       ELSE LET size == c.val.g1
                endianness == IF c.val.g2 # None
                              THEN (IF c.val.g2.val = <<"b", "e">> THEN Big ELSE Little)
                              ELSE Big
            IN Some([size |-> ParseUsize(size), endianness |-> endianness])

(***************************************************************************)
(* Types, decorator.rs 34-42 and make_type, 70-84.                         *)
(***************************************************************************)
Primitive(name, size, endianness) ==
    [kind |-> "Primitive", name |-> name, size |-> size, endianness |-> endianness]
Vector(inner) == [kind |-> "Vector", inner |-> inner]
Misc(name) == [kind |-> "Misc", name |-> name]

Ok(x) == [kind |-> "Ok", val |-> x]
Err(e) == [kind |-> "Err", msg |-> e]

StartsWith(s, prefix) == Len(s) >= Len(prefix) /\ SubSeq(s, 1, Len(prefix)) = prefix

RECURSIVE make_type(_)
make_type(ty) ==
    IF parse_ty(ty) # None
    THEN Ok(Primitive(ty, parse_ty(ty).val.size, parse_ty(ty).val.endianness))
    ELSE IF StartsWith(ty, <<"V", "e", "c", "<">>)
    THEN LET inner == make_type(SubSeq(ty, 5, Len(ty) - 1))
         IN IF inner.kind = "Ok" THEN Ok(Vector(inner.val)) ELSE inner
    ELSE IF StartsWith(ty, <<"&">>)
    THEN Err("invalid type")
    ELSE Ok(Misc(ty))

(***************************************************************************)
(* Token trees and parse_length_expr, decorator.rs 298-362.                *)
(***************************************************************************)
Ident(name) == [t |-> "Ident", name |-> name, style |-> "Plain"]
ModName(name) == [t |-> "Ident", name |-> name, style |-> "ModName"]
ModSep == [t |-> "ModSep"]
BinOp(o) == [t |-> "BinOp", binop |-> o]
Integer(n) == [t |-> "Literal", lit |-> "Integer", n |-> n, suffix |-> FALSE]
OtherToken(what) == [t |-> "Other", what |-> what]
Delimited(delim, tts) == [t |-> "Delimited", delim |-> delim, tts |-> tts]
TtSequence == [t |-> "Sequence"]

LowerCase == {"a", "b", "c", "d", "e", "f", "g", "h", "i", "j", "k", "l", "m",
              "n", "o", "p", "q", "r", "s", "t", "u", "v", "w", "x", "y", "z"}

SelfGetTokensNoPrefix(name) ==
    <<Ident(<<"s", "e", "l", "f">>), OtherToken("."),
      Ident(IF Len(name) >= 4 /\ SubSeq(name, 1, 4) = <<"g", "e", "t", "_">>
            THEN name ELSE <<"g", "e", "t", "_">> \o name),
      Delimited("Paren", <<>>), Ident(<<"a", "s">>), Ident(<<"u", "s", "i", "z", "e">>)>>

\* ecx.parse_tts("self.get_<name>() as usize")
SelfGetTokens(name) ==
    <<Ident(<<"s", "e", "l", "f">>), OtherToken("."), Ident(<<"g", "e", "t", "_">> \o name),
      Delimited("Paren", <<>>), Ident(<<"a", "s">>), Ident(<<"u", "s", "i", "z", "e">>)>>

AsUsizeTokensBare(name) == <<Ident(name)>>

\* ecx.parse_tts("<name> as usize")
AsUsizeTokens(name) ==
    <<Ident(name), Ident(<<"a", "s">>), Ident(<<"u", "s", "i", "z", "e">>)>>

LengthErrorMsg == "Only field names, constants, integers, basic arithmetic expressions (+ - * / %) and parentheses are allowed in the \"length\" attribute"
FieldNameErrorMsg == "Field name must be a member of the struct and not the field itself"

SeqContainsAlways(s, x) == TRUE

\* Vec::contains
SeqContains(s, x) == \E i \in 1..Len(s) : s[i] = x

IsArithmeticNoPercent(binop) == binop \in {"+", "-", "*", "/"}

\* decorator.rs 331: token::Plus | Minus | Star | Slash | Percent
IsArithmetic(binop) == binop \in {"+", "-", "*", "/", "%"}

\* The fold of parse_length_expr over tts, from token k on: the tokens pushed
\* to acc_packet and the messages given to ecx.span_err, in order.
RECURSIVE parse_length_expr_from(_, _, _)
parse_length_expr_from(tts, field_names, k) ==
    IF k > Len(tts) THEN [tokens |-> <<>>, errs |-> <<>>]
    ELSE LET tt == tts[k]
             rest == parse_length_expr_from(tts, field_names, k + 1)
             one ==
                IF tt.t = "Ident" /\ tt.style = "Plain"
                THEN IF \E i \in 1..Len(tt.name) : tt.name[i] \in LowerCase
                     THEN IF SeqContains(field_names, tt.name)
                          THEN [tokens |-> SelfGetTokens(tt.name), errs |-> <<>>]
                          ELSE [tokens |-> <<>>, errs |-> <<FieldNameErrorMsg>>]
                     ELSE [tokens |-> AsUsizeTokens(tt.name), errs |-> <<>>]
                ELSE IF tt.t = "Ident" THEN [tokens |-> <<tt>>, errs |-> <<>>]
                ELSE IF tt.t = "ModSep" THEN [tokens |-> <<tt>>, errs |-> <<>>]
                ELSE IF tt.t = "BinOp"
                THEN IF IsArithmetic(tt.binop)
                     THEN [tokens |-> <<tt>>, errs |-> <<>>]
                     ELSE [tokens |-> <<>>, errs |-> <<LengthErrorMsg>>]
                ELSE IF tt.t = "Literal" /\ tt.lit = "Integer" /\ ~tt.suffix
                THEN [tokens |-> <<tt>>, errs |-> <<>>]
                ELSE IF tt.t = "Delimited"
                THEN LET inner == parse_length_expr_from(tt.tts, field_names, 1)
                     IN [tokens |-> <<Delimited(tt.delim, inner.tokens)>>,
                         errs |-> inner.errs]
                ELSE [tokens |-> <<>>, errs |-> <<LengthErrorMsg>>]
         IN [tokens |-> one.tokens \o rest.tokens, errs |-> one.errs \o rest.errs]

parse_length_expr(tts, field_names) == parse_length_expr_from(tts, field_names, 1)

(***************************************************************************)
(* The input of the decorator: an annotated item. The fields of a struct   *)
(* are named a, b, c, ... in declaration order; the attributes and the     *)
(* type of a field are drawn as make_packet reads them.                    *)
(***************************************************************************)
FieldLetters == <<"a", "b", "c", "d", "e", "f", "g", "h">>
FieldName(k) == <<FieldLetters[k]>>

MetaWord(w) == [node |-> "MetaWord", s |-> w]
MetaList(w, items) == [node |-> "MetaList", s |-> w, items |-> items]
MetaNameValue(w, lit) == [node |-> "MetaNameValue", s |-> w, lit |-> lit]
LitStr(x) == [kind |-> "LitStr", s |-> x]
LitInt == [kind |-> "LitInt"]

Str_u4 == <<"u", "4">>
Str_u8 == <<"u", "8">>
Str_u16le == <<"u", "1", "6", "l", "e">>
Str_Foo == <<"F", "o", "o">>
Str_Bar == <<"B", "a", "r">>
Str_VecU8 == <<"V", "e", "c", "<", "u", "8", ">">>
Str_RefFoo == <<"&", "F", "o", "o">>
Str_VecFoo == <<"V", "e", "c", "<", "F", "o", "o", ">">>
Str_VecVecU8 == <<"V", "e", "c", "<", "V", "e", "c", "<", "u", "8", ">", ">">>

\* the texts of the length attributes: the name of the first field (a sibling
\* of every other field, the field itself on the first)
LengthExprs == {<<Ident(FieldName(1))>>}

ConstructWithLists ==
    {<<>>, <<MetaWord(Str_u4), MetaWord(Str_u16le)>>, <<MetaWord(Str_Bar)>>,
     <<MetaNameValue("x", LitInt)>>}

Attrs ==
    {MetaWord("payload"), MetaWord("length"), MetaList("payload", <<>>),
     MetaNameValue("length_fn", LitStr("f")), MetaNameValue("length_fn", LitInt),
     MetaNameValue("length", LitInt), MetaNameValue("payload", LitInt)}
    \cup {MetaNameValue("length", LitStr(e)) : e \in LengthExprs}
    \cup {MetaList("construct_with", l) : l \in ConstructWithLists}

\* ty_to_string(&*field.node.ty) of the fields
TypeStrs == {Str_u4, Str_VecU8, Str_Foo, Str_RefFoo, Str_VecFoo, Str_VecVecU8}

Items ==
    {[shape |-> "struct", public |-> p, nfields |-> n] : p \in BOOLEAN, n \in 0..MaxFields}
    \cup {[shape |-> "other", public |-> TRUE, nfields |-> 0]}

\* the variants of an enum: struct variants with their number of fields, and
\* a variant of another kind
Variants ==
    {[kind |-> "struct", nfields |-> n] : n \in 0..MaxFields}
    \cup {[kind |-> "tuple", nfields |-> 0]}

EnumItems ==
    {[shape |-> "enum", public |-> TRUE, variants |-> vs] : vs \in SeqsUpTo(Variants, MaxVariants)}
    \cup {[shape |-> "enum", public |-> FALSE, variants |-> <<>>]}

VariantLetters == <<"A", "B", "C", "D">>

\* decorator.rs 255 and 274-280: the variants make_packet is called for
NVariants == IF item.shape = "enum" THEN Len(item.variants) ELSE 1

\* sd.fields.len() of the make_packet call
CurNFields == IF item.shape = "enum" THEN item.variants[vi].nfields ELSE item.nfields

\* decorator.rs 258 and 279: the name given to make_packet
CurName == IF item.shape = "enum" THEN VariantLetters[vi] ELSE "Example"

\* spans: of a field, of a variant, and of the annotated item
FieldSpan(k) == [field |-> k]
VariantSpan(v) == [variant |-> v]
ItemSpan == [field |-> 0]

SpanErr(span, msg) == [level |-> "error", span |-> span, msg |-> msg]
SpanNote(span, msg) == [level |-> "note", span |-> span, msg |-> msg]

(***************************************************************************)
(* make_packet, decorator.rs 86-245.                                       *)
(***************************************************************************)
\* decorator.rs 98-102: the locals of one field
FreshField ==
    [is_payload |-> FALSE, packet_length |-> None, construct_with |-> <<>>, seen |-> <<>>]

\* Vec::dedup: consecutive equal elements collapse to one
RECURSIVE Dedup(_)
Dedup(s) ==
    IF Len(s) <= 1 THEN s
    ELSE IF s[1] = s[2] THEN Dedup(Tail(s))
    ELSE <<s[1]>> \o Dedup(Tail(s))

\* decorator.rs 190-195: seen.dedup() changed the length of seen
DuplicateSeen(seen) == Len(Dedup(seen)) # Len(seen)

PayloadSeenBeforeNever(span) == FALSE

\* decorator.rs 109: a payload was seen before
PayloadSeenBefore(span) == span # None

\* decorator.rs 215: a Misc field without construct_with arguments
MissingConstructWith(construct_with) == construct_with = <<>>

\* decorator.rs 162-172: the names of the fields of sd other than field k
SiblingNames(k) ==
    LET others == {j \in 1..CurNFields : j # k}
        RECURSIVE Names(_)
        Names(j) == IF j > CurNFields THEN <<>>
                    ELSE (IF j \in others THEN <<FieldName(j)>> ELSE <<>>) \o Names(j + 1)
    IN Names(1)

\* decorator.rs 128-141: the construct_with items, from item k on: the types
\* pushed, or the error that ends make_packet
RECURSIVE ConstructWithItems(_, _)
ConstructWithItems(items, k) ==
    IF k > Len(items) THEN Ok(<<>>)
    ELSE IF items[k].node # "MetaWord"
    THEN Err("#[construct_with] should be of the form #[construct_with(<types>)]")
    ELSE LET t == make_type(items[k].s)
         IN IF t.kind = "Err" THEN Err(t.msg)
            ELSE LET more == ConstructWithItems(items, k + 1)
                 IN IF more.kind = "Err" THEN more ELSE Ok(<<t.val>> \o more.val)

\* One attribute of field k, decorator.rs 103-189: the locals after it and
\* the diagnostics it reports; ok is FALSE when make_packet returns None.
ReadAttr(c, span, attr, k) ==
    LET c1 == [c EXCEPT !.seen = Append(c.seen, attr.s)]
        fail(ds) == [ok |-> FALSE, cur |-> c1, span |-> span, diags |-> ds]
        unknown == fail(<<SpanErr(FieldSpan(k), "unknown attribute: " \o attr.s)>>)
    IN IF attr.node = "MetaWord"
       THEN IF attr.s = "payload"
            THEN IF PayloadSeenBefore(span)
                 THEN fail(<<SpanErr(FieldSpan(k), "packet may not have multiple payloads"),
                             SpanNote(span.val, "first payload defined here")>>)
                 ELSE [ok |-> TRUE, cur |-> [c1 EXCEPT !.is_payload = TRUE],
                       span |-> Some(FieldSpan(k)), diags |-> <<>>]
            ELSE unknown
       ELSE IF attr.node = "MetaList"
       THEN IF attr.s = "construct_with"
            THEN IF Len(attr.items) = 0
                 THEN fail(<<SpanErr(FieldSpan(k), "#[construct_with] must have at least one argument")>>)
                 ELSE LET tys == ConstructWithItems(attr.items, 1)
                      IN IF tys.kind = "Err"
                         THEN fail(<<SpanErr(FieldSpan(k), tys.msg)>>)
                         ELSE [ok |-> TRUE,
                               cur |-> [c1 EXCEPT !.construct_with = c.construct_with \o tys.val],
                               span |-> span, diags |-> <<>>]
            ELSE unknown
       ELSE IF attr.s = "length_fn"
       THEN IF attr.lit.kind = "LitStr"
            THEN [ok |-> TRUE,
                  cur |-> [c1 EXCEPT !.packet_length =
                              Some([text |-> "length_fn", name |-> attr.lit.s])],
                  span |-> span, diags |-> <<>>]
            ELSE fail(<<SpanErr(FieldSpan(k), "#[length_fn] should be used as #[length_fn = \"name_of_function\"]")>>)
       ELSE IF attr.s = "length"
       THEN IF attr.lit.kind = "LitStr"
            THEN LET parsed == parse_length_expr(attr.lit.s, SiblingNames(k))
                 IN [ok |-> TRUE,
                     cur |-> [c1 EXCEPT !.packet_length =
                                 Some([text |-> "length", tokens |-> parsed.tokens])],
                     span |-> span,
                     diags |-> [i \in 1..Len(parsed.errs) |->
                                   SpanErr(FieldSpan(k), parsed.errs[i])]]
            ELSE fail(<<SpanErr(FieldSpan(k), "#[length] should be used as #[length = \"field_name and/or arithmetic expression\"]")>>)
       ELSE unknown

\* The end of the loop body for field k of type text ty, decorator.rs
\* 190-232: the Field pushed, or the diagnostic with which make_packet
\* returns None.
EndOfField(c, ty, k) ==
    IF DuplicateSeen(c.seen)
    THEN Err("cannot have two attributes with the same name")
    ELSE LET t == make_type(ty)
         IN IF t.kind = "Err" THEN Err(t.msg)
            ELSE IF t.val.kind = "Vector" /\ ~c.is_payload /\ c.packet_length = None
            THEN Err("variable length field must have #[length = \"\"] or #[length_fn = \"\"] attribute")
            ELSE IF t.val.kind = "Misc" /\ MissingConstructWith(c.construct_with)
            THEN Err("non-primitive field types must specify #[construct_with]")
            ELSE Ok([name           |-> FieldName(k),
                     span           |-> FieldSpan(k),
                     ty             |-> t.val,
                     packet_length  |-> c.packet_length,
                     struct_length  |-> IF t.val.kind = "Vector"
                                        THEN Some([text |-> "len", name |-> FieldName(k)])
                                        ELSE None,
                     is_payload     |-> c.is_payload,
                     construct_with |-> Some(c.construct_with)])

\* the decorator is not running
GenIdle ==
    /\ item = Unset
    /\ pc = "idle"
    /\ fi = 0
    /\ cur = FreshField
    /\ payload_span = None
    /\ fields = <<>>
    /\ packets = Unset
    /\ diags = <<>>
    /\ in_attrs = <<>>
    /\ in_count = 0
    /\ in_payload_fields = <<>>
    /\ in_dup = FALSE
    /\ in_types = <<>>
    /\ in_clean = <<>>
    /\ vi = 1
    /\ vec = <<>>
    /\ pindex = 1
    /\ impl = Unset
    /\ impls_ret = None
    /\ emitted = <<>>

\* no generated method is running
ExecIdle ==
    /\ packet = <<>>
    /\ layout = Unset
    /\ val = Unset
    /\ got = Unset
    /\ written = {}
    /\ called = "none"
    /\ panicked = FALSE

\* parse_length_expr is not running
ExprIdle ==
    /\ sd_names = <<>>
    /\ own = 0
    /\ tt_tokens = <<>>
    /\ tokens_packet = Unset

\* parse_ty is not running
TyIdle ==
    /\ ty_str = <<>>
    /\ ty_ret = Unset

(***************************************************************************)
(* Machine arithmetic on naturals.                                         *)
(***************************************************************************)
RECURSIVE Pow2(_)
Pow2(n) == IF n = 0 THEN 1 ELSE 2 * Pow2(n - 1)

RECURSIVE BitAnd(_, _)
BitAnd(a, b) ==
    IF a = 0 \/ b = 0 THEN 0
    ELSE 2 * BitAnd(a \div 2, b \div 2) + (IF a % 2 = 1 /\ b % 2 = 1 THEN 1 ELSE 0)

RECURSIVE BitOr(_, _)
BitOr(a, b) ==
    IF a = 0 THEN b
    ELSE IF b = 0 THEN a
    ELSE 2 * BitOr(a \div 2, b \div 2) + (IF a % 2 = 1 \/ b % 2 = 1 THEN 1 ELSE 0)

Shl(a, n) == a * Pow2(n)
Shr(a, n) == a \div Pow2(n)

RECURSIVE SumSeq(_)
SumSeq(s) == IF s = <<>> THEN 0 ELSE s[1] + SumSeq(Tail(s))

Reverse(s) == [i \in 1..Len(s) |-> s[Len(s) + 1 - i]]

Min(a, b) == IF a < b THEN a ELSE b

(***************************************************************************)
(* The bit-op planner of util.rs, which decorator.rs imports (line 25) and *)
(* which is not among the sources: modelled from spec.md 4.4 and 9.        *)
(***************************************************************************)
\* widest primitive the planner accepts (spec.md 3: widths 1..=64)
MaxPrimitiveWidth == 64

\* operations(start_bit_in_byte, width_bits): one read per touched byte, first
\* byte first. Bits are numbered from the most significant bit of the first
\* byte; byte i holds the field's bits lo..hi-1 of its own 8, and `shiftl`
\* bits of the field lie in the bytes after it.
operations(offset, size) ==
    IF offset > 7 \/ size = 0 \/ size > MaxPrimitiveWidth THEN None
    ELSE LET nbytes == (offset + size - 1) \div 8 + 1
         IN Some([i \in 1..nbytes |->
                LET lo == IF i = 1 THEN offset ELSE 0
                    hi == IF i = nbytes THEN ((offset + size - 1) % 8) + 1 ELSE 8
                IN [mask   |-> Pow2(8 - lo) - Pow2(8 - hi),
                    shiftl |-> offset + size - (8 * (i - 1) + hi),
                    shiftr |-> 8 - hi]])

\* to_little_endian: the byte sequence of the plan reversed
to_little_endian(ops) == Reverse(ops)

\* to_mutator: the symmetric write of each read, in the same order
to_mutator(ops) ==
    [i \in 1..Len(ops) |->
        [save_mask  |-> 255 - ops[i].mask,
         value_mask |-> Shl(Shr(ops[i].mask, ops[i].shiftr), ops[i].shiftl),
         shiftl     |-> ops[i].shiftr,
         shiftr     |-> ops[i].shiftl]]

\* a GetOperation rendered with its hole filled by the byte b
GetOperationValue(op, b) == Shl(Shr(BitAnd(b, op.mask), op.shiftr), op.shiftl)

\* a SetOperation rendered with {packet} = the byte b and {val} = v; the
\* result is cast to u8
SetOperationValue(sop, b, v) ==
    BitOr(BitAnd(b, sop.save_mask),
          Shl(Shr(BitAnd(v, sop.value_mask), sop.shiftr), sop.shiftl)) % 256

(***************************************************************************)
(* The primitive arm of generate_packet_impl and the text it emits.        *)
(***************************************************************************)
\* current_offset, decorator.rs 1074-1080: the text "<bit_offset / 8> + f1 +
\* f2 ...", kept as its number and its summands
current_offset(bit_offset_, offset_fns) ==
    [base |-> bit_offset_ \div 8, fns |-> offset_fns]

\* the value of that text in a view, each length expression given by the
\* value it has there
EvalOffset(co) == co.base + SumSeq(co.fns)

\* decorator.rs 683-687: the plan of a primitive field
PrimitiveOps(bit_offset, size, endianness) ==
    LET ops == operations(bit_offset % 8, size).val
    IN IF endianness = Little THEN to_little_endian(ops) ELSE ops

\* decorator.rs 690-691: the operations handed to generate_accessor_str
AccessorOps(bit_offset, size, endianness) == PrimitiveOps(bit_offset, size, endianness)

MutatorOpsBigOnly(bit_offset, size, endianness) ==
    to_mutator(operations(bit_offset % 8, size).val)

\* decorator.rs 688-689: the operations handed to generate_mutator_str
MutatorOps(bit_offset, size, endianness) ==
    to_mutator(PrimitiveOps(bit_offset, size, endianness))

SopSubscriptNext(offset, idx) == offset + idx + 1

\* generate_sop_strings, decorator.rs 982: self_.packet[offset + idx]
SopSubscript(offset, idx) == offset + idx

\* generate_accessor_str, decorator.rs 1040-1046: self_.packet[offset] when
\* there is one operation, self_.packet[offset + idx] otherwise
AccessorSubscript(offset, idx, nops) == IF nops = 1 THEN offset ELSE offset + idx

\* The statements of generate_sop_strings run in order on the buffer pkt
\* (subscripts of the program count from 0, positions of a sequence from 1).
RECURSIVE RunSetOps(_, _, _, _, _)
RunSetOps(pkt, offset, sops, idx, v) ==
    IF idx >= Len(sops) THEN pkt
    ELSE LET at == SopSubscript(offset, idx) + 1
         IN RunSetOps([pkt EXCEPT ![at] = SetOperationValue(sops[idx + 1], pkt[at], v)],
                      offset, sops, idx + 1, v)

\* generate_accessor_str, decorator.rs 1029-1052: b0 | b1 | ...
RECURSIVE RunGetOps(_, _, _, _)
RunGetOps(pkt, offset, ops, idx) ==
    IF idx >= Len(ops) THEN 0
    ELSE BitOr(GetOperationValue(ops[idx + 1],
                                 pkt[AccessorSubscript(offset, idx, Len(ops)) + 1]),
               RunGetOps(pkt, offset, ops, idx + 1))

\* lib.rs 27-28: u<w> is an alias of the smallest host integer that holds w bits
HostBits(size) == IF size <= 8 THEN 8 ELSE IF size <= 16 THEN 16
                  ELSE IF size <= 32 THEN 32 ELSE 64

(***************************************************************************)
(* Specification SpecPrim: set_X and get_X of a primitive field X, emitted *)
(* at bit_offset with the length expressions before it summing to varlen,  *)
(* run on a buffer.                                                        *)
(***************************************************************************)
\* values of the host type of a field of `size` bits: each single bit up to
\* two above the width, all ones, alternating bits, zero
RECURSIVE AltBits(_)
AltBits(n) == IF n <= 0 THEN 0 ELSE IF n = 1 THEN 1 ELSE 4 * AltBits(n - 2) + 1

PrimValues(size) ==
    LET top == Min(HostBits(size), size + 2)
    IN {0, Pow2(size) - 1, Pow2(top) - 1, AltBits(top)} \cup {Pow2(k) : k \in 0..(top - 1)}

\* bytes of the buffer: room for the field wherever it starts, and one more
PrimBufLen == (MaxBitOffset \div 8) + MaxVarLen + ((7 + MaxWidth) \div 8) + 2

PrimCO == EvalOffset(current_offset(layout.bit_offset, <<layout.varlen>>))

InitPrim ==
    /\ mode = "prim"
    /\ layout \in [bit_offset : 0..MaxBitOffset, varlen : 0..MaxVarLen,
                   size : 1..MaxWidth, endianness : {Big, Little}]
    /\ packet \in {[i \in 1..PrimBufLen |-> fill] : fill \in {0, 165, 255}}
    /\ val = Unset
    /\ got = Unset
    /\ written = {}
    /\ called = "none"
    /\ panicked = FALSE
    /\ ty_str = <<>>
    /\ ty_ret = Unset
    /\ GenIdle
    /\ ExprIdle

\* set_X(v), generate_mutator_str; one call in a behaviour, on each buffer
\* of InitPrim
SetPrimitive ==
    /\ mode = "prim"
    /\ val = Unset
    /\ LET sops == MutatorOps(layout.bit_offset, layout.size, layout.endianness)
           co == PrimCO
       IN \E v \in PrimValues(layout.size) :
           /\ packet' = RunSetOps(packet, co, sops, 0, v)
           /\ written' = {SopSubscript(co, idx) : idx \in 0..(Len(sops) - 1)}
           /\ val' = Some(v)
           /\ got' = Unset
    /\ called' = "set"
    /\ UNCHANGED <<mode, layout, panicked, tyVars, genVars, exprVars>>

\* get_X(), generate_accessor_str
GetPrimitive ==
    /\ mode = "prim"
    /\ got' = Some(RunGetOps(packet, PrimCO,
                             AccessorOps(layout.bit_offset, layout.size, layout.endianness), 0))
    /\ called' = "get"
    /\ UNCHANGED <<mode, layout, packet, val, written, panicked, tyVars, genVars, exprVars>>

NextPrim == SetPrimitive \/ GetPrimitive

(***************************************************************************)
(* The accessors and mutators handle_vector_field and handle_vec_primitive *)
(* emit, as they run in a view. current_offset is the value of the text    *)
(* {co}, len the value of the text {packet_length}.                        *)
(***************************************************************************)
Panic == [kind |-> "Panic"]

\* &s[a..b] of Rust: panics unless a <= b <= s.len()
Slice(s, a, b) == IF a > b \/ b > Len(s) THEN Panic ELSE Some(SubSeq(s, a + 1, b))

\* &s[a..] of Rust: panics unless a <= s.len()
SliceFrom(s, a) == IF a > Len(s) THEN Panic ELSE Some(SubSeq(s, a + 1, Len(s)))

\* s with the bytes src written from subscript a on
WriteAt(s, a, src) ==
    [i \in 1..Len(s) |-> IF i > a /\ i <= a + Len(src) THEN src[i - a] ELSE s[i]]

\* decorator.rs 573 (get_X_raw): &self.packet[current_offset..len]
RawSlice(pkt, current_offset_, len) == Slice(pkt, current_offset_, len)

\* decorator.rs 588 (get_X_raw_mut): &mut self.packet[current_offset..len]
RawSliceMut(pkt, current_offset_, len) == Slice(pkt, current_offset_, len)

\* decorator.rs 505-512 (get_X of Vec<u8>): the bytes of
\* &self.packet[current_offset..len], copied
GetVecPrimitive(pkt, current_offset_, len) == Slice(pkt, current_offset_, len)

\* decorator.rs 521-527: check_len, assert!(vals.len() <= len) when the field
\* has a length expression (len is None when it has none)
CheckLen(vals, len) == len = None \/ Len(vals) <= len.val

\* std::slice::bytes::copy_memory(src, dst): assert!(dst.len() >= src.len()),
\* then the bytes of src are copied to the front of dst. decorator.rs 538:
\* copy_memory(&vals[..], &mut self.packet[current_offset..])
\* The result is the buffer and the subscripts written, or Panic.
SetVecPrimitive(pkt, current_offset_, len, vals) ==
    IF ~CheckLen(vals, len) THEN [pkt |-> pkt, written |-> {}, panic |-> TRUE]
    ELSE IF SliceFrom(pkt, current_offset_) = Panic
              \/ Len(pkt) - current_offset_ < Len(vals)
         THEN [pkt |-> pkt, written |-> {}, panic |-> TRUE]
    ELSE [pkt     |-> WriteAt(pkt, current_offset_, vals),
          written |-> current_offset_ .. (current_offset_ + Len(vals) - 1),
          panic   |-> FALSE]

\* A packet T held in a Vec<T> field is modelled by its bytes on the wire:
\* MutableTPacket::new wants minimum_packet_size() bytes (decorator.rs
\* 759-765; one byte here), populate (decorator.rs 725-732) writes the bytes
\* and packet_size() (decorator.rs 816-819) is their number.
ElemMinimumPacketSize == 1
ElemPacketSize(e) == Len(e)

\* decorator.rs 631-638 (set_X of Vec<Misc>), from the element vals[k] on:
\*   let mut packet = MutableTPacket::new(&mut self.packet[current_offset..]).unwrap();
\*   packet.populate(val);
\*   current_offset += packet.packet_size();
\*   assert!(current_offset <= len);
RECURSIVE SetVecMiscLoop(_, _, _, _, _, _)
SetVecMiscLoop(pkt, current_offset_, len, vals, k, wr) ==
    IF k > Len(vals) THEN [pkt |-> pkt, written |-> wr, panic |-> FALSE]
    ELSE IF SliceFrom(pkt, current_offset_) = Panic
              \/ Len(pkt) - current_offset_ < ElemMinimumPacketSize
              \/ Len(pkt) - current_offset_ < Len(vals[k])
         THEN [pkt |-> pkt, written |-> wr, panic |-> TRUE]
    ELSE LET pkt2 == WriteAt(pkt, current_offset_, vals[k])
             wr2 == wr \cup (current_offset_ .. (current_offset_ + Len(vals[k]) - 1))
             next_offset == current_offset_ + ElemPacketSize(vals[k])
         IN IF next_offset <= len
            THEN SetVecMiscLoop(pkt2, next_offset, len, vals, k + 1, wr2)
            ELSE [pkt |-> pkt2, written |-> wr2, panic |-> TRUE]

SetVecMisc(pkt, current_offset_, len, vals) ==
    SetVecMiscLoop(pkt, current_offset_, len, vals, 1, {})

(***************************************************************************)
(* Specification SpecVec: the accessors of a vector field X, emitted at    *)
(* bit_offset with the length expressions before it summing to varlen, run *)
(* on a buffer; `length` is the value of the field's own length expression *)
(* (None when the field has none, which only a payload may).               *)
(***************************************************************************)
\* enough bytes for every write of the bounds to fit
VecBufLen == (MaxBitOffset \div 8) + MaxVarLen + MaxLength + (MaxElems * MaxElemSize) + MaxVals + 1

\* the buffer before any call: byte i holds i
VecInitPacket == [i \in 1..VecBufLen |-> i]

\* the bytes a caller writes differ from every byte of VecInitPacket
NewBytes == {200, 201}

VecLayouts ==
    {l \in [bit_offset : 0..MaxBitOffset, varlen : 0..MaxVarLen,
            length : {None} \cup {Some(n) : n \in 0..MaxLength},
            inner : {"u8", "Misc"}, is_payload : BOOLEAN] :
        \* make_packet, decorator.rs 208-212
        /\ (~l.is_payload => l.length # None)
        \* handle_vector_field, decorator.rs 623 and 644, emits nothing without it
        /\ (l.inner = "Misc" => l.length # None)}

VecCO == EvalOffset(current_offset(layout.bit_offset, <<layout.varlen>>))

InitVec ==
    /\ mode = "vec"
    /\ layout \in VecLayouts
    /\ packet = VecInitPacket
    /\ val = Unset
    /\ got = Unset
    /\ written = {}
    /\ called = "none"
    /\ panicked = FALSE
    /\ ty_str = <<>>
    /\ ty_ret = Unset
    /\ GenIdle
    /\ ExprIdle

VecCall(name, ret) ==
    /\ called' = name
    /\ panicked' = (ret = Panic)
    /\ got' = IF ret = Panic THEN Unset ELSE ret
    /\ UNCHANGED <<mode, layout, packet, val, written, tyVars, genVars, exprVars>>

\* get_X_raw(), emitted for a vector that is not the payload (decorator.rs 564)
GetRaw ==
    /\ mode = "vec" /\ ~panicked /\ ~layout.is_payload
    /\ VecCall("get_raw", RawSlice(packet, VecCO, layout.length.val))

\* get_X_raw_mut()
GetRawMut ==
    /\ mode = "vec" /\ ~panicked /\ ~layout.is_payload
    /\ VecCall("get_raw_mut", RawSliceMut(packet, VecCO, layout.length.val))

\* get_X() of a Vec<u8> that is not the payload (decorator.rs 499)
GetVecU8 ==
    /\ mode = "vec" /\ ~panicked /\ ~layout.is_payload /\ layout.inner = "u8"
    /\ VecCall("get", GetVecPrimitive(packet, VecCO, layout.length.val))

VecSet(vals, r) ==
    /\ packet' = r.pkt
    /\ written' = r.written
    /\ panicked' = r.panic
    /\ val' = Some(vals)
    /\ got' = Unset
    /\ called' = "set"
    /\ UNCHANGED <<mode, layout, tyVars, genVars, exprVars>>

\* set_X(vals) of a Vec<u8>; one call in a behaviour
SetVecU8 ==
    /\ mode = "vec" /\ ~panicked /\ val = Unset /\ layout.inner = "u8"
    /\ \E vals \in SeqsUpTo(NewBytes, MaxVals) :
          VecSet(vals, SetVecPrimitive(packet, VecCO, layout.length, vals))

\* set_X(vals) of a Vec<T>, T a packet; one call in a behaviour
SetVecOfMisc ==
    /\ mode = "vec" /\ ~panicked /\ val = Unset /\ layout.inner = "Misc"
    /\ \E vals \in SeqsUpTo(SeqsUpTo({200}, MaxElemSize) \ {<<>>}, MaxElems) :
          VecSet(vals, SetVecMisc(packet, VecCO, layout.length.val, vals))

NextVec == GetRaw \/ GetRawMut \/ GetVecU8 \/ SetVecU8 \/ SetVecOfMisc

(***************************************************************************)
(* Specification SpecTy: parse_ty applied to every name of TypeNames.      *)
(***************************************************************************)
InitTy ==
    /\ mode = "ty"
    /\ ty_str \in TypeNames(MaxNameLen)
    /\ ty_ret = Unset
    /\ packet = <<>>
    /\ layout = Unset
    /\ val = Unset
    /\ got = Unset
    /\ written = {}
    /\ called = "none"
    /\ panicked = FALSE
    /\ GenIdle
    /\ ExprIdle

CallParseTy ==
    /\ mode = "ty"
    /\ ty_ret = Unset
    /\ ty_ret' = parse_ty(ty_str)
    /\ UNCHANGED <<mode, ty_str, execVars, genVars, exprVars>>

NextTy == CallParseTy

(***************************************************************************)
(* Specification SpecExpr: parse_length_expr as make_packet calls it for   *)
(* a length attribute, on every expression of LengthTts.                   *)
(***************************************************************************)
\* longest length expression, in token trees
MaxExprLen == 3

Name_k == <<"k">>
Name_get_k == <<"g", "e", "t", "_", "k">>
Name_K == <<"K">>
Name_Kk == <<"K", "k">>

\* a literal that is no unsuffixed integer: 3usize, "s"
IntegerSuffixed(n) == [t |-> "Literal", lit |-> "Integer", n |-> n, suffix |-> TRUE]
LitStrToken == [t |-> "Literal", lit |-> "Str", n |-> 0, suffix |-> FALSE]

\* the token trees of the expressions: single tokens, and delimited groups
FlatTokens ==
    {Ident(Name_k), Ident(Name_get_k), Ident(Name_K), Ident(Name_Kk),
     ModName(<<"m">>), ModSep,
     BinOp("+"), BinOp("%"), BinOp("^"),
     Integer(3), IntegerSuffixed(3), LitStrToken, TtSequence}

GroupTokens ==
    {Delimited("Paren", <<BinOp("^")>>),
     Delimited("Bracket", <<Delimited("Paren", <<Ident(Name_get_k)>>)>>)}

\* ecx.parse_tts(s), decorator.rs 173, for the strings s of the model
LengthTts(n) == SeqsUpTo(FlatTokens \cup GroupTokens, n)

\* the field names of the annotated struct
StructNames == {<<Name_k, Name_get_k, Name_K>>, <<Name_K, Name_Kk>>}

\* decorator.rs 162-172: the names of sd.fields other than field_name
RECURSIVE other_field_names_from(_, _, _)
other_field_names_from(names, field_name, j) ==
    IF j > Len(names) THEN <<>>
    ELSE (IF names[j] = field_name THEN <<>> ELSE <<names[j]>>)
         \o other_field_names_from(names, field_name, j + 1)

all_field_names(names, field_name) == names

other_field_names(names, field_name) == other_field_names_from(names, field_name, 1)

InitExpr ==
    /\ mode = "expr"
    /\ sd_names \in StructNames
    /\ own \in 1..Len(sd_names)
    /\ tt_tokens \in LengthTts(MaxExprLen)
    /\ tokens_packet = Unset
    /\ GenIdle
    /\ ExecIdle
    /\ TyIdle

\* decorator.rs 162-175: the length attribute of field own
CallParseLengthExpr ==
    /\ mode = "expr"
    /\ tokens_packet = Unset
    /\ tokens_packet' = parse_length_expr(tt_tokens, other_field_names(sd_names, sd_names[own]))
    /\ UNCHANGED <<mode, sd_names, own, tt_tokens, tyVars, execVars, genVars>>

NextExpr == CallParseLengthExpr

(***************************************************************************)
(* The decorator, generate_packet: make_packets reads the item, then the   *)
(* items of each Packet are pushed.                                        *)
(***************************************************************************)
packet_name(p) == p.base_name \o "Packet"
packet_name_mut(p) == "Mutable" \o p.base_name \o "Packet"

\* decorator.rs 653-659: the locals of generate_packet_impl; idx counts the
\* fields done
FreshImpl(mutable, name) ==
    [mutable |-> mutable, name |-> name, idx |-> 0, bit_offset |-> 0,
     offset_fns_packet |-> <<>>, offset_fns_struct |-> <<>>,
     accessors |-> <<>>, mutators |-> <<>>, error |-> FALSE,
     payload_bounds |-> None]

\* what one step of the field loop hands back: the locals, the diagnostics
\* reported, and whether the decorator panicked
Stepped(g, ds) == [impl |-> g, diags |-> ds, panicked |-> FALSE]
Panicked(g, ds) == [impl |-> g, diags |-> ds, panicked |-> TRUE]

PayloadNotLastNever(field, idx, nfields) == FALSE

\* decorator.rs 666-671: a payload without a length that is not the last field
PayloadNotLast(field, idx, nfields) ==
    field.is_payload /\ field.packet_length = None /\ idx # nfields - 1

PayloadStepLengthOnly(g, field, nfields) ==
    LET co == current_offset(g.bit_offset, g.offset_fns_packet)
        notLast == PayloadNotLast(field, g.idx, nfields)
        g1 == IF field.is_payload
              THEN [g EXCEPT !.payload_bounds =
                        Some([lower |-> co,
                              upper |-> IF field.packet_length # None
                                        THEN Some([co |-> current_offset(0, <<>>),
                                                   len |-> field.packet_length.val])
                                        ELSE None]),
                             !.error = g.error \/ notLast]
              ELSE g
    IN Stepped(g1, IF notLast
                   THEN <<SpanErr(field.span, "#[payload] must specify a #[length_fn], unless it is the last field of a packet")>>
                   ELSE <<>>)

\* decorator.rs 663-680: the payload bounds of a payload field
PayloadStep(g, field, nfields) ==
    LET co == current_offset(g.bit_offset, g.offset_fns_packet)
        notLast == PayloadNotLast(field, g.idx, nfields)
        g1 == IF field.is_payload
              THEN [g EXCEPT !.payload_bounds =
                        Some([lower |-> co,
                              upper |-> IF field.packet_length # None
                                        THEN Some([co |-> co, len |-> field.packet_length.val])
                                        ELSE None]),
                             !.error = g.error \/ notLast]
              ELSE g
    IN Stepped(g1, IF notLast
                   THEN <<SpanErr(field.span, "#[payload] must specify a #[length_fn], unless it is the last field of a packet")>>
                   ELSE <<>>)

\* decorator.rs 682-693: a Primitive field
PrimitiveStep(g, field) ==
    LET co == current_offset(g.bit_offset, g.offset_fns_packet)
        size == field.ty.size
        endianness == field.ty.endianness
    IN IF operations(g.bit_offset % 8, size) = None
       THEN Panicked(g, <<>>)
       ELSE Stepped([g EXCEPT
                !.mutators = Append(g.mutators,
                    [fn |-> "set", name |-> field.name, co |-> co,
                     ops |-> MutatorOps(g.bit_offset, size, endianness)]),
                !.accessors = Append(g.accessors,
                    [fn |-> "get", name |-> field.name, co |-> co,
                     ops |-> AccessorOps(g.bit_offset, size, endianness)]),
                !.bit_offset = g.bit_offset + size], <<>>)

\* handle_vec_primitive, decorator.rs 491-550
handle_vec_primitive(g, field, inner_ty, co) ==
    IF inner_ty.name = Str_u8
    THEN IF ~field.is_payload /\ field.packet_length = None
         THEN Panicked(g, <<>>)
         ELSE Stepped([g EXCEPT
                !.accessors = IF ~field.is_payload
                              THEN Append(g.accessors,
                                     [fn |-> "get_vec", name |-> field.name, co |-> co,
                                      len |-> field.packet_length.val])
                              ELSE g.accessors,
                !.mutators = Append(g.mutators,
                               [fn |-> "set_vec", name |-> field.name, co |-> co,
                                check_len |-> field.packet_length])], <<>>)
    ELSE Stepped([g EXCEPT !.error = TRUE],
                 <<SpanErr(field.span, "unimplemented variable length field")>>)

InnerIsVectorNever(inner_ty) == FALSE

\* decorator.rs 600: the vector's element type is itself a vector
InnerIsVector(inner_ty) == inner_ty.kind = "Vector"

\* handle_vector_field, decorator.rs 552-648
handle_vector_field(g, field, inner_ty, co) ==
    LET noLength == ~field.is_payload /\ field.packet_length = None
        ds == IF noLength
              THEN <<SpanErr(field.span, "variable length field must have #[length_fn = \"\"] attribute")>>
              ELSE <<>>
        g1 == [g EXCEPT !.error = g.error \/ noLength]
    IN IF noLength
       THEN Panicked(g1, ds)
       ELSE LET g2 == IF ~field.is_payload
                      THEN [g1 EXCEPT
                              !.accessors = Append(g1.accessors,
                                  [fn |-> "get_raw", name |-> field.name, co |-> co,
                                   len |-> field.packet_length.val]),
                              !.mutators = Append(g1.mutators,
                                  [fn |-> "get_raw_mut", name |-> field.name, co |-> co,
                                   len |-> field.packet_length.val])]
                      ELSE g1
            IN IF inner_ty.kind = "Primitive"
               THEN handle_vec_primitive(g2, field, inner_ty, co)
               ELSE IF InnerIsVector(inner_ty)
               THEN Stepped([g2 EXCEPT !.error = TRUE],
                            <<SpanErr(field.span, "variable length fields may not contain vectors")>>)
               ELSE IF field.packet_length = None
               THEN Panicked(g2, <<>>)
               ELSE Stepped([g2 EXCEPT
                        !.accessors = Append(g2.accessors,
                            [fn |-> "get_vec_misc", name |-> field.name, co |-> co,
                             len |-> field.packet_length.val]),
                        !.mutators = Append(g2.mutators,
                            [fn |-> "set_vec_misc", name |-> field.name, co |-> co,
                             len |-> field.packet_length.val])], <<>>)

\* the loop of handle_misc_field with co left at the offset of the field
RECURSIVE MiscArgsOneOffset(_, _, _, _)
MiscArgsOneOffset(args, i, offset_fns, a) ==
    IF i > Len(args) THEN a
    ELSE LET arg == args[i]
         IN IF arg.kind = "Primitive"
            THEN IF operations(a.bit_offset % 8, arg.size) = None
                 THEN [a EXCEPT !.panicked = TRUE]
                 ELSE MiscArgsOneOffset(args, i + 1, offset_fns,
                        [a EXCEPT
                           !.inner_accessors = Append(a.inner_accessors,
                               [arg |-> i - 1, co |-> a.co,
                                ops |-> AccessorOps(a.bit_offset, arg.size, arg.endianness)]),
                           !.inner_mutators = Append(a.inner_mutators,
                               [arg |-> i - 1, co |-> a.co,
                                ops |-> MutatorOps(a.bit_offset, arg.size, arg.endianness)]),
                           !.get_args = Append(a.get_args, i - 1),
                           !.bit_offset = a.bit_offset + arg.size])
            ELSE MiscArgsOneOffset(args, i + 1, offset_fns,
                        [a EXCEPT !.errs = Append(a.errs, i - 1)])

\* handle_misc_field, decorator.rs 428-458: the loop over the construct_with
\* arguments from argument i on; a is what the loop has built so far
RECURSIVE MiscArgs(_, _, _, _)
MiscArgs(args, i, offset_fns, a) ==
    IF i > Len(args) THEN a
    ELSE LET arg == args[i]
         IN IF arg.kind = "Primitive"
            THEN IF operations(a.bit_offset % 8, arg.size) = None
                 THEN [a EXCEPT !.panicked = TRUE]
                 ELSE MiscArgs(args, i + 1, offset_fns,
                        [a EXCEPT
                           !.inner_accessors = Append(a.inner_accessors,
                               [arg |-> i - 1, co |-> a.co,
                                ops |-> AccessorOps(a.bit_offset, arg.size, arg.endianness)]),
                           !.inner_mutators = Append(a.inner_mutators,
                               [arg |-> i - 1, co |-> a.co,
                                ops |-> MutatorOps(a.bit_offset, arg.size, arg.endianness)]),
                           !.get_args = Append(a.get_args, i - 1),
                           !.bit_offset = a.bit_offset + arg.size,
                           !.co = current_offset(a.bit_offset + arg.size, offset_fns)])
            ELSE MiscArgs(args, i + 1, offset_fns,
                        [a EXCEPT !.errs = Append(a.errs, i - 1)])

\* handle_misc_field, decorator.rs 414-489
handle_misc_field(g, field, co) ==
    LET a == MiscArgs(field.construct_with.val, 1, g.offset_fns_packet,
                      [bit_offset |-> g.bit_offset, co |-> co, inner_accessors |-> <<>>,
                       inner_mutators |-> <<>>, get_args |-> <<>>, errs |-> <<>>,
                       panicked |-> FALSE])
        ds == [k \in 1..Len(a.errs) |->
                  SpanErr(field.span, "arguments to #[construct_with] must be primitives")]
        g1 == [g EXCEPT !.bit_offset = a.bit_offset,
                        !.error = g.error \/ a.errs # <<>>,
                        !.mutators = Append(g.mutators,
                            [fn |-> "set_misc", name |-> field.name,
                             inner |-> a.inner_mutators, set_args |-> a.get_args])]
    IN IF a.panicked THEN Panicked(g, ds)
       \* decorator.rs 474: &get_args[..get_args.len() - 2] of an empty get_args
       ELSE IF a.get_args = <<>> THEN Panicked(g1, ds)
       ELSE Stepped([g1 EXCEPT
                !.accessors = Append(g.accessors,
                    [fn |-> "get_misc", name |-> field.name,
                     inner |-> a.inner_accessors, get_args |-> a.get_args])], ds)

PushOffsetFnsStructOnly(g, field) ==
    [g EXCEPT
       !.offset_fns_struct = IF field.struct_length # None
                             THEN Append(g.offset_fns_struct, field.struct_length.val)
                             ELSE g.offset_fns_struct,
       !.idx = g.idx + 1]

\* decorator.rs 702-707: the length functions of the field join the offsets
PushOffsetFns(g, field) ==
    [g EXCEPT
       !.offset_fns_packet = IF field.packet_length # None
                             THEN Append(g.offset_fns_packet, field.packet_length.val)
                             ELSE g.offset_fns_packet,
       !.offset_fns_struct = IF field.struct_length # None
                             THEN Append(g.offset_fns_struct, field.struct_length.val)
                             ELSE g.offset_fns_struct,
       !.idx = g.idx + 1]

\* decorator.rs 660-708: the body of the field loop for one field
ImplField(g, field, nfields) ==
    LET co == current_offset(g.bit_offset, g.offset_fns_packet)
        p == PayloadStep(g, field, nfields)
        r == IF field.ty.kind = "Primitive" THEN PrimitiveStep(p.impl, field)
             ELSE IF field.ty.kind = "Vector"
             THEN handle_vector_field(p.impl, field, field.ty.inner, co)
             ELSE handle_misc_field(p.impl, field, co)
    IN [impl |-> IF r.panicked THEN r.impl ELSE PushOffsetFns(r.impl, field),
        diags |-> p.diags \o r.diags,
        panicked |-> r.panicked]

ByteSizeFloor(bit_offset) == bit_offset \div 8

\* decorator.rs 749-753: byte_size
ByteSize(bit_offset) ==
    IF bit_offset % 8 = 0 THEN bit_offset \div 8 ELSE (bit_offset \div 8) + 1

generate_set_fields_but_last(p) == [k \in 1..(Len(p.fields) - 1) |-> p.fields[k].name]

\* generate_set_fields, decorator.rs 714-723: the fields populate sets, in order
generate_set_fields(p) == [k \in 1..Len(p.fields) |-> p.fields[k].name]

\* decorator.rs 755-797: the impl item of one view
ImplItem(g, p) ==
    [item |-> "impl", name |-> g.name, mutable |-> g.mutable,
     minimum_packet_size |-> ByteSize(g.bit_offset),
     packet_size_struct |-> current_offset(g.bit_offset, g.offset_fns_struct),
     populate |-> IF g.mutable THEN Some(generate_set_fields(p)) ELSE None,
     accessors |-> g.accessors,
     mutators |-> IF g.mutable THEN g.mutators ELSE <<>>]

\* generate_packet_structs, decorator.rs 402-412
StructItems(p) ==
    <<[item |-> "struct", name |-> packet_name(p), mutable |-> FALSE],
      [item |-> "struct", name |-> packet_name_mut(p), mutable |-> TRUE]>>

\* generate_packet_trait_impls, decorator.rs 831-848: payload() and
\* payload_mut() give self.packet[start..end], start and end being the bounds
\* that are not the empty text; without end the slice runs to the end of the
\* buffer. The lower bound is the text of current_offset, which is never empty.
PayloadSlice(payload_bounds) ==
    [start |-> Some(payload_bounds.lower), end |-> payload_bounds.upper]

\* decorator.rs 391-396: the items pushed once generate_packet_impls gave Some
RestItems(p, r) ==
    <<[item |-> "PacketSize", name |-> packet_name(p), size |-> r.packet_size],
      [item |-> "PacketSize", name |-> packet_name_mut(p), size |-> r.packet_size],
      [item |-> "Packet", name |-> packet_name(p),
       payload |-> PayloadSlice(r.payload_bounds)],
      [item |-> "Packet", name |-> packet_name_mut(p),
       payload |-> PayloadSlice(r.payload_bounds)],
      [item |-> "MutablePacket", name |-> packet_name_mut(p),
       payload |-> PayloadSlice(r.payload_bounds)],
      [item |-> "Iterable", name |-> p.base_name],
      [item |-> "Iterator", name |-> p.base_name],
      [item |-> "FromPacket", name |-> packet_name(p)],
      [item |-> "FromPacket", name |-> packet_name_mut(p)],
      [item |-> "Debug", name |-> packet_name(p)],
      [item |-> "Debug", name |-> packet_name_mut(p)]>>

Init ==
    /\ mode = "gen"
    /\ item \in Items
    /\ pc = "make_packets"
    /\ fi = 0
    /\ cur = FreshField
    /\ payload_span = None
    /\ fields = <<>>
    /\ packets = Unset
    /\ diags = <<>>
    /\ in_attrs = <<>>
    /\ in_count = 0
    /\ in_payload_fields = <<>>
    /\ in_dup = FALSE
    /\ in_types = <<>>
    /\ in_clean = <<>>
    /\ vi = 1
    /\ vec = <<>>
    /\ pindex = 1
    /\ impl = Unset
    /\ impls_ret = None
    /\ emitted = <<>>
    /\ ExecIdle
    /\ TyIdle
    /\ ExprIdle

\* make_packets returns None
ReturnNone(ds) ==
    /\ diags' = diags \o ds
    /\ packets' = None
    /\ pc' = "done"

\* the last make_packet call reported a diagnostic
Dirty(clean) == [clean EXCEPT ![Len(clean)] = FALSE]

\* make_packets, decorator.rs 247-295, up to the first call of make_packet
MakePackets ==
    /\ mode = "gen" /\ pc = "make_packets"
    /\ IF item.shape \notin {"struct", "enum"}
       THEN ReturnNone(<<SpanErr(ItemSpan, "#[packet] may only be used with enums and structs")>>)
       ELSE IF ~item.public
       THEN ReturnNone(<<SpanErr(ItemSpan, IF item.shape = "enum"
                                           THEN "#[packet] enums must be public"
                                           ELSE "#[packet] structs must be public")>>)
       ELSE /\ pc' = "variant"
            /\ UNCHANGED <<diags, packets>>
    /\ UNCHANGED <<mode, item, fi, cur, payload_span, fields, inputVars, implVars, batchVars,
                   tyVars, execVars, exprVars>>

\* decorator.rs 256-268 and 279-280: make_packet is called for the next
\* struct variant (for the struct itself), or the variant has another kind
MakePacketsVariant ==
    /\ mode = "gen" /\ pc = "variant" /\ vi <= NVariants
    /\ IF item.shape = "enum" /\ item.variants[vi].kind # "struct"
       THEN /\ ReturnNone(<<SpanErr(VariantSpan(vi), "")>>)
            /\ UNCHANGED <<fi, fields, payload_span, in_payload_fields, in_types, in_clean>>
       ELSE /\ pc' = "field"
            /\ fi' = 1
            /\ fields' = <<>>
            /\ payload_span' = None
            /\ in_payload_fields' = <<>>
            /\ in_types' = <<>>
            /\ in_clean' = Append(in_clean, TRUE)
            /\ UNCHANGED <<diags, packets>>
    /\ UNCHANGED <<mode, item, cur, in_attrs, in_count, in_dup, vi, vec, pindex, implVars,
                   tyVars, execVars, exprVars>>

\* decorator.rs 270 and 280: every variant gave a Packet; generate_packet
\* (381-385) starts its loop over them
MakePacketsReturn ==
    /\ mode = "gen" /\ pc = "variant" /\ vi > NVariants
    /\ packets' = Some(vec)
    /\ pc' = IF vec = <<>> THEN "done" ELSE "structs"
    /\ UNCHANGED <<mode, item, fi, cur, payload_span, fields, diags, inputVars, implVars,
                   batchVars, tyVars, execVars, exprVars>>

\* decorator.rs 90-102: the next field of sd.fields, named or not
MakePacketField ==
    /\ mode = "gen" /\ pc = "field" /\ fi <= CurNFields
    /\ \E named \in BOOLEAN :
         IF named
         THEN /\ cur' = FreshField
              /\ pc' = "attrs"
              /\ UNCHANGED <<diags, packets, in_clean>>
         ELSE /\ ReturnNone(<<SpanErr(FieldSpan(fi), "all fields in a packet must be named")>>)
              /\ in_clean' = Dirty(in_clean)
              /\ UNCHANGED cur
    /\ in_attrs' = <<>>
    /\ UNCHANGED <<mode, item, fi, payload_span, fields, in_count, in_payload_fields, in_dup,
                   in_types, vi, vec, pindex, implVars, tyVars, execVars, exprVars>>

\* decorator.rs 103-189: one attribute of the field
MakePacketAttr ==
    /\ mode = "gen" /\ pc = "attrs" /\ in_count < MaxAttrs
    /\ \E attr \in Attrs :
         LET r == ReadAttr(cur, payload_span, attr, fi)
         IN /\ cur' = r.cur
            /\ payload_span' = r.span
            /\ in_attrs' = Append(in_attrs, attr)
            /\ in_count' = in_count + 1
            /\ in_dup' = (in_dup \/ \E i \in 1..Len(in_attrs) : in_attrs[i].s = attr.s)
            /\ in_payload_fields' =
                 IF attr = MetaWord("payload") /\ ~SeqContains(in_payload_fields, fi)
                 THEN Append(in_payload_fields, fi)
                 ELSE in_payload_fields
            /\ in_clean' = IF r.diags # <<>> THEN Dirty(in_clean) ELSE in_clean
            /\ IF r.ok
               THEN /\ diags' = diags \o r.diags
                    /\ UNCHANGED <<pc, packets>>
               ELSE ReturnNone(r.diags)
    /\ UNCHANGED <<mode, item, fi, fields, in_types, vi, vec, pindex, implVars, tyVars,
                   execVars, exprVars>>

\* decorator.rs 190-232: the attributes are done; the type of the field. The
\* locals of the loop body (99-102) end with the iteration.
MakePacketEndField ==
    /\ mode = "gen" /\ pc = "attrs"
    /\ \E ty \in TypeStrs :
         LET r == EndOfField(cur, ty, fi)
         IN /\ in_types' = Append(in_types, ty)
            /\ cur' = FreshField
            /\ in_attrs' = <<>>
            /\ IF r.kind = "Err"
               THEN /\ ReturnNone(<<SpanErr(FieldSpan(fi), r.msg)>>)
                    /\ in_clean' = Dirty(in_clean)
                    /\ UNCHANGED <<fields, fi>>
               ELSE /\ fields' = Append(fields, r.val)
                    /\ fi' = fi + 1
                    /\ pc' = "field"
                    /\ UNCHANGED <<diags, packets, in_clean>>
    /\ UNCHANGED <<mode, item, payload_span, in_count, in_payload_fields, in_dup,
                   vi, vec, pindex, implVars, tyVars, execVars, exprVars>>

\* decorator.rs 235-243, and 259-260 or 280: after the last field
MakePacketFinish ==
    /\ mode = "gen" /\ pc = "field" /\ fi > CurNFields
    /\ IF payload_span = None
       THEN /\ ReturnNone(<<SpanErr(ItemSpan, "#[packet]'s must contain a payload")>>)
            /\ in_clean' = Dirty(in_clean)
            /\ UNCHANGED <<vec, vi>>
       ELSE /\ vec' = Append(vec, [base_name |-> CurName, fields |-> fields])
            /\ vi' = vi + 1
            /\ pc' = "variant"
            /\ UNCHANGED <<diags, packets, in_clean>>
    /\ UNCHANGED <<mode, item, fi, cur, payload_span, fields, in_attrs, in_count,
                   in_payload_fields, in_dup, in_types, pindex, implVars, tyVars, execVars, exprVars>>

\* the packet of the loop of generate_packet, decorator.rs 385
CurPacket == packets.val[pindex]

\* decorator.rs 386-387 and 804-806: the view structs, then the first view
GeneratePacketStructs ==
    /\ mode = "gen" /\ pc = "structs"
    /\ emitted' = emitted \o StructItems(CurPacket)
    /\ impl' = FreshImpl(FALSE, packet_name(CurPacket))
    /\ pc' = "impl"
    /\ UNCHANGED <<mode, item, makeVars, diags, inputVars, impls_ret, batchVars, tyVars,
                   execVars, exprVars>>

\* generate_packet_impl, decorator.rs 660-708: one field of the loop
GeneratePacketImplField ==
    /\ mode = "gen" /\ pc = "impl" /\ impl.idx < Len(CurPacket.fields)
    /\ LET p == CurPacket
           r == ImplField(impl, p.fields[impl.idx + 1], Len(p.fields))
       IN /\ impl' = r.impl
          /\ diags' = diags \o r.diags
          /\ pc' = IF r.panicked THEN "panicked" ELSE "impl"
    /\ UNCHANGED <<mode, item, makeVars, inputVars, impls_ret, emitted, batchVars, tyVars,
                   execVars, exprVars>>

\* generate_packet_impl, decorator.rs 710-799, and the loop of
\* generate_packet_impls, 805-808
GeneratePacketImplEnd ==
    /\ mode = "gen" /\ pc = "impl" /\ impl.idx = Len(CurPacket.fields)
    /\ IF impl.error
       THEN /\ impls_ret' = None
            /\ UNCHANGED emitted
       ELSE /\ emitted' = Append(emitted, ImplItem(impl, CurPacket))
            /\ impls_ret' = Some([payload_bounds |-> impl.payload_bounds.val,
                                  packet_size |-> current_offset(impl.bit_offset,
                                                                 impl.offset_fns_packet)])
    /\ IF impl.mutable
       THEN /\ pc' = "rest"
            /\ UNCHANGED impl
       ELSE /\ impl' = FreshImpl(TRUE, packet_name_mut(CurPacket))
            /\ UNCHANGED pc
    /\ UNCHANGED <<mode, item, makeVars, diags, inputVars, batchVars, tyVars, execVars, exprVars>>

\* generate_packet, decorator.rs 385 and 389-398: the other items of the
\* packet, then the next packet
GeneratePacketRest ==
    /\ mode = "gen" /\ pc = "rest"
    /\ emitted' = IF impls_ret # None
                  THEN emitted \o RestItems(CurPacket, impls_ret.val)
                  ELSE emitted
    /\ pindex' = pindex + 1
    /\ pc' = IF pindex < Len(packets.val) THEN "structs" ELSE "done"
    /\ UNCHANGED <<mode, item, makeVars, diags, inputVars, impl, impls_ret, vi, vec, in_clean,
                   tyVars, execVars, exprVars>>

Next ==
    \/ MakePackets
    \/ MakePacketsVariant
    \/ MakePacketsReturn
    \/ MakePacketField
    \/ MakePacketAttr
    \/ MakePacketEndField
    \/ MakePacketFinish
    \/ GeneratePacketStructs
    \/ GeneratePacketImplField
    \/ GeneratePacketImplEnd
    \/ GeneratePacketRest

vars == <<mode, tyVars, execVars, genVars, exprVars>>

Spec == Init /\ [][Next]_vars

\* the decorator on an enum
InitEnum ==
    /\ mode = "gen"
    /\ item \in EnumItems
    /\ pc = "make_packets"
    /\ fi = 0
    /\ cur = FreshField
    /\ payload_span = None
    /\ fields = <<>>
    /\ packets = Unset
    /\ diags = <<>>
    /\ in_attrs = <<>>
    /\ in_count = 0
    /\ in_payload_fields = <<>>
    /\ in_dup = FALSE
    /\ in_types = <<>>
    /\ in_clean = <<>>
    /\ vi = 1
    /\ vec = <<>>
    /\ pindex = 1
    /\ impl = Unset
    /\ impls_ret = None
    /\ emitted = <<>>
    /\ ExecIdle
    /\ TyIdle
    /\ ExprIdle

SpecEnum == InitEnum /\ [][Next]_vars

\* parse_length_expr on the length expressions
SpecExpr == InitExpr /\ [][NextExpr]_vars

SpecTy == InitTy /\ [][NextTy]_vars

SpecPrim == InitPrim /\ [][NextPrim]_vars

SpecVec == InitVec /\ [][NextVec]_vars

(***************************************************************************)
(* Specification SpecIter: next() of the emitted <name>Iterable,           *)
(* decorator.rs 872-886, called again and again on a buffer. layout is the *)
(* packet the iterable is of: its fixed bits, and whether its packet_size  *)
(* adds the length expression "self.get_len() as usize" of a first field   *)
(* len: u8. packet is self.buf, got what the last call returned.           *)
(***************************************************************************)
IterBytes == {0, 1, 2}

IterBufs(n) == SeqsUpTo(IterBytes, n)

IterLayouts ==
    {l \in [bit_offset : 0..MaxBitOffset, has_length : BOOLEAN] :
        l.has_length => l.bit_offset >= 8}

\* decorator.rs 759-765: <name>Packet::new(self.buf)
IterNew(buf) == IF Len(buf) >= ByteSize(layout.bit_offset) THEN Some(buf) ELSE None

\* decorator.rs 816-819: ret.packet_size(), the value of the text of
\* current_offset(bit_offset, offset_fns_packet) in the view
IterPacketSize(buf) ==
    EvalOffset(current_offset(layout.bit_offset,
                              IF layout.has_length THEN <<buf[1]>> ELSE <<>>))

InitIter ==
    /\ mode = "iter"
    /\ layout \in IterLayouts
    /\ packet \in IterBufs(MaxIterBuf)
    /\ val = Unset
    /\ got = Unset
    /\ written = {}
    /\ called = "none"
    /\ panicked = FALSE
    /\ TyIdle
    /\ GenIdle
    /\ ExprIdle

\* decorator.rs 876-885: next()
IterNext ==
    /\ mode = "iter" /\ ~panicked
    /\ called' = "next"
    /\ IF Len(packet) > 0
       THEN IF IterNew(packet) = None \/ SliceFrom(packet, IterPacketSize(packet)) = Panic
            THEN /\ panicked' = TRUE
                 /\ UNCHANGED <<packet, got>>
            ELSE /\ packet' = SliceFrom(packet, IterPacketSize(packet)).val
                 /\ got' = Some(packet)
                 /\ UNCHANGED panicked
       ELSE /\ got' = None
            /\ UNCHANGED <<packet, panicked>>
    /\ UNCHANGED <<mode, layout, val, written, tyVars, genVars, exprVars>>

NextIter == IterNext

SpecIter == InitIter /\ [][NextIter]_vars

(***************************************************************************)
(* Claims.                                                                 *)
(***************************************************************************)
\* the reference of C1: ty is u<w>, u<w>be or u<w>le, with k digits
RefSuffixes == {<<>>, <<"b", "e">>, <<"l", "e">>}

RefShape(ty, k) ==
    /\ k >= 1
    /\ Len(ty) >= 1 + k
    /\ ty[1] = "u"
    /\ \A i \in 2..(1 + k) : ty[i] \in Digits
    /\ SubSeq(ty, 2 + k, Len(ty)) \in RefSuffixes

RefWidth(ty, k) == ParseUsize(SubSeq(ty, 2, 1 + k))

RefEndian(ty, k) ==
    IF RefWidth(ty, k) > 8 /\ SubSeq(ty, 2 + k, Len(ty)) = <<"l", "e">> THEN Little ELSE Big

\* C1: parse_ty agrees with the reference: u<w>, u<w>be, u<w>le with
\* 1 <= w <= 64 yield (w, Big) when w <= 8 or the suffix is be or absent and
\* (w, Little) when the suffix is le and w > 8; a name that does not match
\* ^u[0-9]+(be|le)?$ yields None. (Stated as the claim has it; the code
\* violates it.)
C1_ParseTyAgreesWithReference ==
    (mode = "ty" /\ ty_ret # Unset) =>
        /\ \A k \in 1..Len(ty_str) :
              (RefShape(ty_str, k) /\ RefWidth(ty_str, k) \in 1..64)
                  => ty_ret = Some([size |-> RefWidth(ty_str, k),
                                    endianness |-> RefEndian(ty_str, k)])
        /\ (~ \E k \in 1..Len(ty_str) : RefShape(ty_str, k)) => ty_ret = None

PrimSet == mode = "prim" /\ val # Unset

\* C2: set_X(v) and then get_X() on the same buffer returns v masked to its
\* low w bits, for every primitive field X of width w, either endianness, at
\* every bit offset.
C2_RoundTripPrimitive ==
    (PrimSet /\ got # Unset) => got.val = val.val % Pow2(layout.size)

\* a little-endian field over a byte boundary, not byte aligned, set to a
\* value with a bit above its width, and read back
C2_Witness ==
    /\ PrimSet
    /\ got # Unset
    /\ layout.endianness = Little
    /\ layout.size > 8
    /\ layout.bit_offset % 8 # 0
    /\ val.val >= Pow2(layout.size)
    /\ got.val = val.val % Pow2(layout.size)
    /\ got.val # 0

CeilDiv8(n) == (n + 7) \div 8

\* the bytes packet[CO .. CO + ceil(w/8)) of the claim
C3_ClaimedRange == PrimCO .. (PrimCO + CeilDiv8(layout.size) - 1)

\* the bytes the field's bits lie in: packet[CO .. CO + ceil((b mod 8 + w)/8))
C3_TouchedRange ==
    PrimCO .. (PrimCO + CeilDiv8((layout.bit_offset % 8) + layout.size) - 1)

\* C3 as claimed: every byte subscript written by set_X lies in
\* packet[CO .. CO + ceil(w/8)).
C3_FrameCeilWidth == PrimSet => written \subseteq C3_ClaimedRange

\* C3 amended: every byte subscript written by set_X lies in
\* packet[CO .. CO + ceil(((b mod 8) + w)/8)), b the bit offset of the field,
\* and set_X modifies no byte outside that range.
C3_FrameTouchedBytes ==
    [][mode = "prim" =>
        /\ written' \subseteq C3_TouchedRange
        /\ \A i \in 1..Len(packet) :
              packet'[i] # packet[i] => (i - 1) \in C3_TouchedRange]_vars

\* an 8-bit field that starts in the middle of a byte was set: two bytes
\* were written and both changed
C3_Witness ==
    /\ PrimSet
    /\ layout.size = 8
    /\ layout.bit_offset % 8 = 4
    /\ written = {PrimCO, PrimCO + 1}
    /\ val.val = 255
    /\ packet[PrimCO + 1] = 15
    /\ packet[PrimCO + 2] = 240

\* the bytes packet[CO .. CO + packet_length) of a vector field
VecRange == VecCO .. (VecCO + layout.length.val - 1)

\* C4 as claimed: every write of set_X(vals), X a vector field (Vec<u8> or
\* Vec<Misc>) with a length expression, falls inside
\* packet[CO .. CO + packet_length), and no byte outside it is modified.
C4_VectorSetterFrame ==
    (mode = "vec" /\ layout.length # None) =>
        /\ written \subseteq VecRange
        /\ \A i \in 1..Len(packet) :
              packet[i] # VecInitPacket[i] => (i - 1) \in VecRange

\* C5 as claimed: get_X_raw and get_X_raw_mut return exactly
\* packet[CO .. CO + L]: L bytes from CO on, for every CO >= 0.
C5_RawIsCOToCOPlusLength ==
    (mode = "vec" /\ called \in {"get_raw", "get_raw_mut"}) =>
        /\ ~panicked
        /\ got = Some(SubSeq(packet, VecCO + 1, VecCO + layout.length.val))

\* C6 as claimed: set_X(v) with len(v) <= L and then get_X(), X a Vec<u8>
\* field that is not the payload, returns a sequence whose first
\* min(len(v), L) bytes equal v.
C6_RoundTripVecU8 ==
    (mode = "vec" /\ called = "get" /\ val # Unset /\ Len(val.val) <= layout.length.val) =>
        /\ ~panicked
        /\ LET n == Min(Len(val.val), layout.length.val)
           IN /\ Len(got.val) >= n
              /\ SubSeq(got.val, 1, n) = SubSeq(val.val, 1, n)

(***************************************************************************)
(* The decorator: what make_packet accepts and what the impl items say.    *)
(***************************************************************************)
\* the Packet make_packets returned
ThePacket == packets.val[1]

MadePacket == mode = "gen" /\ packets.kind = "Some"

ReturnedNone == mode = "gen" /\ packets.kind = "None"

ImplItems == {i \in 1..Len(emitted) : emitted[i].item = "impl"}

RECURSIVE SumWidths(_)
SumWidths(tys) ==
    IF tys = <<>> THEN 0
    ELSE (IF Head(tys).kind = "Primitive" THEN Head(tys).size ELSE 0) + SumWidths(Tail(tys))

\* B: the widths of the Primitive fields and of the construct_with arguments
\* of the Misc fields; a Vector field counts for nothing
RECURSIVE FixedBits(_)
FixedBits(fs) ==
    IF fs = <<>> THEN 0
    ELSE (IF Head(fs).ty.kind = "Primitive" THEN Head(fs).ty.size
          ELSE IF Head(fs).ty.kind = "Misc" THEN SumWidths(Head(fs).construct_with.val)
          ELSE 0) + FixedBits(Tail(fs))

\* C7: every impl item pushed gives minimum_packet_size() the constant
\* ceil(B/8), B the summed widths of the Primitive fields and of the
\* construct_with arguments of the Misc fields of the packet; and once
\* generate_packet_impls has returned Some, both views have their impl item.
C7_MinimumPacketSizeIsCeilOfFixedBits ==
    MadePacket =>
        /\ \A i \in ImplItems :
             emitted[i].minimum_packet_size = CeilDiv8(FixedBits(ThePacket.fields))
        /\ (pc = "done" /\ impls_ret # None) =>
             /\ \E i \in ImplItems : emitted[i].name = packet_name(ThePacket)
             /\ \E i \in ImplItems : emitted[i].name = packet_name_mut(ThePacket)

\* both impl items are out for a packet whose fixed bits end inside a byte,
\* with a Misc field and a Vector field that has a length
C7_Witness ==
    /\ MadePacket
    /\ Cardinality(ImplItems) = 2
    /\ FixedBits(ThePacket.fields) % 8 # 0
    /\ \E k \in 1..Len(ThePacket.fields) : ThePacket.fields[k].ty.kind = "Misc"
    /\ \E k \in 1..Len(ThePacket.fields) :
         /\ ThePacket.fields[k].ty.kind = "Vector"
         /\ ThePacket.fields[k].packet_length # None

PayloadFields(fs) == {k \in 1..Len(fs) : fs[k].is_payload}

HasError(ds) == \E i \in 1..Len(ds) : ds[i].level = "error"

\* C8: a Packet is produced only when exactly one field carried #[payload],
\* and that field is its one payload field; make_packet returning None has
\* reported an error; with every field read and no payload the error is the
\* missing payload; with a second payload field the last diagnostics are the
\* error on the second field and the note on the first.
C8_ExactlyOnePayload ==
    /\ MadePacket =>
         /\ Len(in_payload_fields) = 1
         /\ PayloadFields(ThePacket.fields) = {in_payload_fields[1]}
    /\ ReturnedNone => HasError(diags)
    /\ (mode = "gen" /\ packets # Unset /\ item.shape = "struct" /\ item.public
            /\ fi > item.nfields /\ in_payload_fields = <<>>) =>
         /\ packets = None
         /\ diags[Len(diags)] = SpanErr(ItemSpan, "#[packet]'s must contain a payload")
    /\ (mode = "gen" /\ Len(in_payload_fields) >= 2) =>
         /\ packets = None
         /\ Len(in_payload_fields) = 2
         /\ Len(diags) >= 2
         /\ diags[Len(diags) - 1] =
              SpanErr(FieldSpan(in_payload_fields[2]), "packet may not have multiple payloads")
         /\ diags[Len(diags)] =
              SpanNote(FieldSpan(in_payload_fields[1]), "first payload defined here")

\* a second field carried #[payload] and make_packet has returned
C8_Witness ==
    /\ mode = "gen"
    /\ in_payload_fields = <<1, 2>>
    /\ packets = None

\* C9: once a field has had two attributes of one name, wherever they stand,
\* make_packet returns None with an error.
C9_DuplicateDirectivesRejected ==
    (mode = "gen" /\ in_dup /\ packets # Unset) => (packets = None /\ HasError(diags))

\* C10: every Misc field of a Packet make_packet produced has a non-empty
\* construct_with list whose elements are all Primitive.
C10_MiscConstructWithAllPrimitive ==
    MadePacket =>
        \A k \in 1..Len(ThePacket.fields) :
            ThePacket.fields[k].ty.kind = "Misc" =>
                /\ ThePacket.fields[k].construct_with.val # <<>>
                /\ \A j \in 1..Len(ThePacket.fields[k].construct_with.val) :
                     ThePacket.fields[k].construct_with.val[j].kind = "Primitive"

PayloadNotLastMsg == "#[payload] must specify a #[length_fn], unless it is the last field of a packet"

\* the payload field of the packet has no length and is not its last field
BadPayload(p) ==
    \E k \in 1..Len(p.fields) :
        /\ p.fields[k].is_payload
        /\ p.fields[k].packet_length = None
        /\ k # Len(p.fields)

SaysPayloadNotLast(ds) == \E i \in 1..Len(ds) : ds[i].msg = PayloadNotLastMsg

OnlyViewStructs == \A i \in 1..Len(emitted) : emitted[i].item = "struct"

\* C11: for a packet whose payload has no length and is not the last field,
\* nothing but the two view structs is ever pushed, and once the field loops
\* of both views are over the diagnostic of decorator.rs 671 has been
\* reported on the payload field; for any other packet that diagnostic is
\* never reported.
C11_PayloadWithoutLengthMustBeLast ==
    MadePacket =>
        /\ BadPayload(ThePacket) => OnlyViewStructs
        /\ (BadPayload(ThePacket) /\ pc \in {"rest", "done"}) =>
              \E i \in 1..Len(diags) : \E k \in PayloadFields(ThePacket.fields) :
                  diags[i] = SpanErr(FieldSpan(k), PayloadNotLastMsg)
        /\ ~BadPayload(ThePacket) => ~SaysPayloadNotLast(diags)

\* generate_packet has returned for a packet whose payload, without a length,
\* stands before another field
C11_Witness ==
    /\ MadePacket
    /\ pc = "done"
    /\ BadPayload(ThePacket)
    /\ SaysPayloadNotLast(diags)
    /\ Len(emitted) = 2

NestedVectorMsg == "variable length fields may not contain vectors"

\* the fields of the packet whose type is a vector of vectors
NestedVectorFields(p) ==
    {k \in 1..Len(p.fields) :
        p.fields[k].ty.kind = "Vector" /\ p.fields[k].ty.inner.kind = "Vector"}

\* some field read so far was declared Vec<Vec<u8>>
ReadNestedVector == \E k \in 1..Len(in_types) : in_types[k] = Str_VecVecU8

\* C12: once a field declared Vec<Vec<T>> has been read no impl item is ever
\* pushed, so none of its accessors or mutators reaches the sink; when
\* generate_packet has returned an error has been reported; and when the
\* field loops of both views are over each such field of the packet has the
\* diagnostic of decorator.rs 601.
C12_NestedVectorsRejected ==
    (mode = "gen" /\ ReadNestedVector) =>
        /\ ImplItems = {}
        /\ pc = "done" => HasError(diags)
        /\ (MadePacket /\ pc \in {"rest", "done"}) =>
              \A k \in NestedVectorFields(ThePacket) :
                  \E i \in 1..Len(diags) : diags[i] = SpanErr(FieldSpan(k), NestedVectorMsg)

\* generate_packet has returned for a packet with a Vec<Vec<u8>> field that
\* is not the payload and has a length
C12_Witness ==
    /\ MadePacket
    /\ pc = "done"
    /\ \E k \in NestedVectorFields(ThePacket) :
         ~ThePacket.fields[k].is_payload /\ ThePacket.fields[k].packet_length # None
    /\ \E i \in 1..Len(diags) : diags[i].msg = NestedVectorMsg

\* C13: when generate_packet has returned and a diagnostic was reported for
\* the packet, no item of that packet, its view structs included, was pushed.
C13_ErrorsGateEveryItem ==
    (mode = "gen" /\ pc = "done" /\ HasError(diags)) => emitted = <<>>

\* generate_packet_impl on all the fields of a packet: its locals after the
\* field loop, or Unset where the loop panicked
RECURSIVE ImplFields(_, _)
ImplFields(g, p) ==
    IF g.idx = Len(p.fields) THEN g
    ELSE LET r == ImplField(g, p.fields[g.idx + 1], Len(p.fields))
         IN IF r.panicked \/ r.diags # <<>> THEN Unset ELSE ImplFields(r.impl, p)

\* the generator has nothing to report on the packet, in either view
GeneratesCleanly(p) ==
    /\ ImplFields(FreshImpl(FALSE, packet_name(p)), p) # Unset
    /\ ImplFields(FreshImpl(TRUE, packet_name_mut(p)), p) # Unset

\* the items emitted that carry a name of the packet
ItemsOf(p) ==
    {i \in 1..Len(emitted) :
        emitted[i].name \in {p.base_name, packet_name(p), packet_name_mut(p)}}

\* the number of items of a packet: StructItems, one impl per view, RestItems
AllItems(p) ==
    Len(StructItems(p)) + 2 + Len(RestItems(p, [packet_size |-> current_offset(0, <<>>),
                      payload_bounds |-> [lower |-> current_offset(0, <<>>), upper |-> None]]))

\* C14: when the decorator has ended on an enum, every variant that was made
\* into a packet with no diagnostic of its own, and on which the generator
\* has nothing to report, has all of its items emitted, whatever was
\* reported for the other variants.
C14_BatchIsolation ==
    (mode = "gen" /\ item.shape = "enum" /\ pc = "done") =>
        \A v \in 1..Len(vec) :
            (in_clean[v] /\ GeneratesCleanly(vec[v])) =>
                Cardinality(ItemsOf(vec[v])) = AllItems(vec[v])

\* C15: generate_packet never aborts through a panic.
C15_NoAbnormalAbort ==
    mode = "gen" => pc # "panicked"

(***************************************************************************)
(* parse_length_expr: what went in and what came out.                      *)
(***************************************************************************)
Returned == mode = "expr" /\ tokens_packet # Unset

\* the fields of the record other than the annotated one
Siblings == {sd_names[j] : j \in 1..Len(sd_names) \ {own}}

\* the names the identifiers of the expressions are drawn from
ExprNames == {Name_k, Name_get_k, Name_K, Name_Kk}

HasLowercase(name) == \E i \in 1..Len(name) : name[i] \in LowerCase

\* `self.get_<name>() as usize` and `<name> as usize`, as token trees
GetterCall(name) ==
    <<Ident(<<"s", "e", "l", "f">>), OtherToken("."), Ident(<<"g", "e", "t", "_">> \o name),
      Delimited("Paren", <<>>)>>
AsUsize == <<Ident(<<"a", "s">>), Ident(<<"u", "s", "i", "z", "e">>)>>

\* how often the bare identifier name occurs in ts, groups included
RECURSIVE CountIdent(_, _)
CountIdent(ts, name) ==
    IF ts = <<>> THEN 0
    ELSE LET h == Head(ts)
         IN (IF h.t = "Ident" THEN (IF h.style = "Plain" /\ h.name = name THEN 1 ELSE 0)
             ELSE IF h.t = "Delimited" THEN CountIdent(h.tts, name)
             ELSE 0)
            + CountIdent(Tail(ts), name)

\* how often the run of token trees occurs in ts, groups included
RECURSIVE CountRunFrom(_, _, _)
CountRunFrom(ts, run, i) ==
    IF i > Len(ts) THEN 0
    ELSE (IF i + Len(run) - 1 <= Len(ts) /\ SubSeq(ts, i, i + Len(run) - 1) = run
          THEN 1 ELSE 0)
         + (IF ts[i].t = "Delimited" THEN CountRunFrom(ts[i].tts, run, 1) ELSE 0)
         + CountRunFrom(ts, run, i + 1)

CountRun(ts, run) == CountRunFrom(ts, run, 1)

\* how often msg was reported
CountMsg(errs, msg) == Cardinality({i \in 1..Len(errs) : errs[i] = msg})

\* how often the bare identifiers of names occur in ts, groups included
RECURSIVE CountIdents(_, _)
CountIdents(ts, names) ==
    IF names = {} THEN 0
    ELSE LET n == CHOOSE x \in names : TRUE
         IN CountIdent(ts, n) + CountIdents(ts, names \ {n})

\* ts written out token by token, the delimiters of every group included;
\* the `()` of a getter call (it follows `.get_<name>`) is no group of the
\* expression
RECURSIVE WrittenOut(_, _)
WrittenOut(ts, i) ==
    IF i > Len(ts) THEN <<>>
    ELSE (IF ts[i].t # "Delimited" THEN <<ts[i]>>
          ELSE IF i > 2 /\ ts[i - 2] = OtherToken(".") THEN <<>>
          ELSE <<[t |-> "Open", delim |-> ts[i].delim]>> \o WrittenOut(ts[i].tts, 1)
               \o <<[t |-> "Close", delim |-> ts[i].delim]>>)
         \o WrittenOut(ts, i + 1)

IsDelimiter(tok) == tok.t \in {"Open", "Close"}
IsOperator(tok) == tok.t = "BinOp" /\ tok.binop \in {"+", "-", "*", "/", "%"}
IsOtherOperator(tok) == tok.t = "BinOp" /\ tok.binop \notin {"+", "-", "*", "/", "%"}
IsIntegerLiteral(tok) == tok.t = "Literal" /\ tok.lit = "Integer"
IsPlainInteger(tok) == IsIntegerLiteral(tok) /\ ~tok.suffix
IsOtherLiteral(tok) == tok.t = "Literal" /\ tok.lit # "Integer"
IsSequence(tok) == tok.t = "Sequence"
IsPathToken(tok) == tok.t = "ModSep" \/ (tok.t = "Ident" /\ tok.style = "ModName")

\* C16: once parse_length_expr has returned, every sibling name with a
\* lowercase character occurs in the result as `self.get_<name>() as usize`
\* exactly as often as it occurs as a bare identifier in the expression,
\* groups included, a name starting with get_ too.
C16_SiblingRewrittenToGetter ==
    Returned =>
        \A name \in Siblings :
            HasLowercase(name) =>
                CountRun(tokens_packet.tokens, GetterCall(name) \o AsUsize)
                    = CountIdent(tt_tokens, name)

\* a sibling named get_k was rewritten inside a group, and k at the top
C16_Witness ==
    /\ Returned
    /\ {Name_k, Name_get_k} \subseteq Siblings
    /\ \E i \in 1..Len(tt_tokens) :
          /\ tt_tokens[i].t = "Delimited"
          /\ CountRun(tt_tokens[i].tts, <<Ident(Name_get_k)>>) > 0
    /\ \E i \in 1..Len(tt_tokens) : tt_tokens[i] = Ident(Name_k)
    /\ tokens_packet.errs = <<>>

\* C17, as claimed: every bare identifier with a lowercase character that is
\* no sibling name occurs in the result as `<name> as usize`.
C17_NonSiblingIsConstant ==
    Returned =>
        \A name \in ExprNames \ Siblings :
            HasLowercase(name) =>
                CountRun(tokens_packet.tokens, <<Ident(name)>> \o AsUsize)
                    = CountIdent(tt_tokens, name)

NonSiblingLowercase(name) == HasLowercase(name) /\ name \notin Siblings

\* C17, amended: a bare identifier with a lowercase character that is no
\* sibling name is rejected: "Field name must be a member of the struct and
\* not the field itself" is reported once per occurrence and no
\* `<name> as usize` is put in the result.
C17_NonSiblingRejected ==
    Returned =>
        /\ CountMsg(tokens_packet.errs, FieldNameErrorMsg)
               = CountIdents(tt_tokens, {name \in ExprNames : NonSiblingLowercase(name)})
        /\ \A name \in ExprNames :
              NonSiblingLowercase(name) =>
                  CountRun(tokens_packet.tokens, <<Ident(name)>> \o AsUsize) = 0

\* the expression is the one identifier k, and the record has no field k
C17_Witness ==
    /\ Returned
    /\ tt_tokens = <<Ident(Name_k)>>
    /\ \A j \in 1..Len(sd_names) : sd_names[j] # Name_k
    /\ tokens_packet = [tokens |-> <<>>, errs |-> <<FieldNameErrorMsg>>]

\* C18, as claimed: when the name of the annotated field occurs in its own
\* expression, whatever its letter case, a diagnostic is reported and the
\* result has no `self.get_<f>()`.
C18_SelfReferenceAnyCase ==
    (Returned /\ CountIdent(tt_tokens, sd_names[own]) > 0) =>
        /\ tokens_packet.errs # <<>>
        /\ CountRun(tokens_packet.tokens, GetterCall(sd_names[own])) = 0

\* C18, amended: when the name of the annotated field has a lowercase
\* character and occurs in its own expression, a diagnostic is reported;
\* and whatever the name, the result has no `self.get_<f>()`.
C18_SelfReferenceRejected ==
    Returned =>
        /\ (HasLowercase(sd_names[own]) /\ CountIdent(tt_tokens, sd_names[own]) > 0)
               => CountMsg(tokens_packet.errs, FieldNameErrorMsg) > 0
        /\ CountRun(tokens_packet.tokens, GetterCall(sd_names[own])) = 0

\* the annotated field k names itself, next to its sibling get_k
C18_Witness ==
    /\ Returned
    /\ sd_names[own] = Name_k
    /\ CountIdent(tt_tokens, Name_k) > 0
    /\ CountIdent(tt_tokens, Name_get_k) > 0
    /\ CountMsg(tokens_packet.errs, FieldNameErrorMsg) > 0

Passes(tok) == IsIntegerLiteral(tok) \/ IsOperator(tok) \/ IsDelimiter(tok)
Rejected(tok) == IsOtherOperator(tok) \/ IsOtherLiteral(tok) \/ IsSequence(tok)

\* C19, as claimed: the integer literals, the operators + - * / % and the
\* delimiters of the groups are in the result as in the expression, in the
\* same order; every other operator, every literal that is no integer and
\* every sequence is reported and is not in the result.
C19_PassThrough ==
    Returned =>
        /\ SelectSeq(WrittenOut(tokens_packet.tokens, 1), Passes)
               = SelectSeq(WrittenOut(tt_tokens, 1), Passes)
        /\ SelectSeq(WrittenOut(tokens_packet.tokens, 1), Rejected) = <<>>
        /\ CountMsg(tokens_packet.errs, LengthErrorMsg)
               = Len(SelectSeq(WrittenOut(tt_tokens, 1), Rejected))

PassesPlain(tok) == IsPlainInteger(tok) \/ IsOperator(tok) \/ IsDelimiter(tok)
RejectedOrSuffixed(tok) == Rejected(tok) \/ (IsIntegerLiteral(tok) /\ tok.suffix)

\* C19, amended: the integer literals without a suffix, the operators
\* + - * / % and the delimiters of the groups are in the result as in the
\* expression, in the same order; every other operator, every other literal
\* (an integer with a suffix included) and every sequence is reported and is
\* not in the result.
C19_PassThroughUnsuffixed ==
    Returned =>
        /\ SelectSeq(WrittenOut(tokens_packet.tokens, 1), PassesPlain)
               = SelectSeq(WrittenOut(tt_tokens, 1), PassesPlain)
        /\ SelectSeq(WrittenOut(tokens_packet.tokens, 1), RejectedOrSuffixed) = <<>>
        /\ CountMsg(tokens_packet.errs, LengthErrorMsg)
               = Len(SelectSeq(WrittenOut(tt_tokens, 1), RejectedOrSuffixed))

\* an integer, an operator and a group whose body was rejected
C19_Witness ==
    /\ Returned
    /\ tt_tokens = <<Integer(3), BinOp("%"), Delimited("Paren", <<BinOp("^")>>)>>
    /\ tokens_packet = [tokens |-> <<Integer(3), BinOp("%"), Delimited("Paren", <<>>)>>,
                        errs |-> <<LengthErrorMsg>>]

\* C20: every bare identifier with no lowercase character occurs in the
\* result as `<name> as usize` as often as in the expression; the path
\* segments and the :: are in the result as in the expression, in the same
\* order; and m::K becomes m::K as usize.
C20_ConstantsAndPaths ==
    Returned =>
        /\ \A name \in ExprNames :
              ~HasLowercase(name) =>
                  CountRun(tokens_packet.tokens, <<Ident(name)>> \o AsUsize)
                      = CountIdent(tt_tokens, name)
        /\ SelectSeq(WrittenOut(tokens_packet.tokens, 1), IsPathToken)
               = SelectSeq(WrittenOut(tt_tokens, 1), IsPathToken)
        /\ tt_tokens = <<ModName(<<"m">>), ModSep, Ident(Name_K)>>
               => tokens_packet.tokens
                      = <<ModName(<<"m">>), ModSep, Ident(Name_K)>> \o AsUsize

\* the path m::K, K being the name of a field as well
C20_Witness ==
    /\ Returned
    /\ tt_tokens = <<ModName(<<"m">>), ModSep, Ident(Name_K)>>
    /\ Name_K \in Siblings
    /\ tokens_packet.errs = <<>>

(***************************************************************************)
(* The methods of the emitted impl items.                                  *)
(***************************************************************************)
\* the fields for which the impl item has a get_<field>, a set_<field>
Getters(it) ==
    {it.accessors[i].name : i \in {j \in 1..Len(it.accessors) :
        it.accessors[j].fn \in {"get", "get_vec", "get_vec_misc", "get_misc"}}}
Setters(it) ==
    {it.mutators[i].name : i \in {j \in 1..Len(it.mutators) :
        it.mutators[j].fn \in {"set", "set_vec", "set_vec_misc", "set_misc"}}}

FieldNamesOf(p) == [k \in 1..Len(p.fields) |-> p.fields[k].name]

\* a payload of type Vec<u8>
IsPayloadBytes(field) ==
    /\ field.is_payload
    /\ field.ty.kind = "Vector"
    /\ field.ty.inner.kind = "Primitive"
    /\ field.ty.inner.name = Str_u8

\* populate sets every field in declaration order, with setters that exist
PopulateSetsAll(it) ==
    it.mutable =>
        /\ it.populate = Some(FieldNamesOf(ThePacket))
        /\ \A k \in 1..Len(ThePacket.fields) : ThePacket.fields[k].name \in Setters(it)

\* C21, as claimed: every impl item emitted has get_<field> for every field of
\* the packet, the payload included; the mutable one has set_<field> for
\* every field, and its populate calls them all in declaration order.
C21_AccessorCoverage ==
    mode = "gen" =>
        \A i \in ImplItems :
            /\ \A k \in 1..Len(ThePacket.fields) :
                  ThePacket.fields[k].name \in Getters(emitted[i])
            /\ PopulateSetsAll(emitted[i])

\* C21, amended: every impl item emitted has get_<field> for every field of
\* the packet except a payload of type Vec<u8>, which has none; the mutable
\* one has set_<field> for every field, and its populate calls them all in
\* declaration order.
C21_AccessorCoverageButPayloadBytes ==
    mode = "gen" =>
        \A i \in ImplItems :
            /\ \A k \in 1..Len(ThePacket.fields) :
                  ThePacket.fields[k].name \in Getters(emitted[i])
                      <=> ~IsPayloadBytes(ThePacket.fields[k])
            /\ PopulateSetsAll(emitted[i])

\* both impl items are out for a packet of a Misc field and a Vec<u8> payload
C21_Witness ==
    /\ MadePacket
    /\ Cardinality(ImplItems) = 2
    /\ Len(ThePacket.fields) = 2
    /\ ThePacket.fields[1].ty.kind = "Misc"
    /\ IsPayloadBytes(ThePacket.fields[2])
    /\ \E i \in ImplItems : emitted[i].mutable /\ Len(emitted[i].populate.val) = 2

(***************************************************************************)
(* The offsets the driver hands to the methods.                            *)
(***************************************************************************)
\* the length expressions of the fields before field k that carry one
RECURSIVE LengthsBefore(_, _)
LengthsBefore(p, k) ==
    IF k <= 1 THEN <<>>
    ELSE LengthsBefore(p, k - 1)
         \o (IF p.fields[k - 1].packet_length # None
             THEN <<p.fields[k - 1].packet_length.val>> ELSE <<>>)

\* b_k: the fixed bits of the fields before field k
BitsBefore(p, k) == FixedBits(SubSeq(p.fields, 1, k - 1))

\* floor(b_k / 8), then the length expressions before field k
ExpectedCO(p, k) == [base |-> BitsBefore(p, k) \div 8, fns |-> LengthsBefore(p, k)]

\* the offset written into a method of a field: of the field itself, or of
\* the first construct_with argument of a Misc field
MethodCO(m) == IF m.fn \in {"get_misc", "set_misc"} THEN m.inner[1].co ELSE m.co

FieldIndex(p, name) == CHOOSE k \in 1..Len(p.fields) : p.fields[k].name = name

\* C22: while generate_packet_impl walks the fields, its locals before field
\* k give CO = floor(b_k / 8) followed by the length expressions of the
\* fields before k that carry one, in order; every method built so far has
\* the CO of its field; and so has the lower payload bound.
C22_CumulativeOffsets ==
    (mode = "gen" /\ pc = "impl") =>
        /\ impl.bit_offset = BitsBefore(CurPacket, impl.idx + 1)
        /\ current_offset(impl.bit_offset, impl.offset_fns_packet)
               = ExpectedCO(CurPacket, impl.idx + 1)
        /\ \A i \in 1..Len(impl.accessors) :
              MethodCO(impl.accessors[i])
                  = ExpectedCO(CurPacket, FieldIndex(CurPacket, impl.accessors[i].name))
        /\ \A i \in 1..Len(impl.mutators) :
              MethodCO(impl.mutators[i])
                  = ExpectedCO(CurPacket, FieldIndex(CurPacket, impl.mutators[i].name))

\* the second field is handled after a first field with fixed bits and a
\* length expression
C22_Witness ==
    /\ mode = "gen" /\ pc = "impl"
    /\ impl.idx = 2
    /\ impl.bit_offset >= 8
    /\ CurPacket.fields[1].packet_length # None
    /\ Len(impl.accessors) = 2

\* the bits before argument i of the construct_with list of field k
BitsBeforeArg(p, k, i) ==
    BitsBefore(p, k) + SumWidths(SubSeq(p.fields[k].construct_with.val, 1, i - 1))

\* the inner methods of a Misc method m of field k are planned argument by
\* argument: start bit and byte offset from the bits before the argument
InnerPlanned(p, m, Ops(_, _, _)) ==
    LET k == FieldIndex(p, m.name)
        cw == p.fields[k].construct_with.val
    IN /\ Len(m.inner) = Len(cw)
       /\ \A i \in 1..Len(cw) :
             /\ m.inner[i].co = [base |-> BitsBeforeArg(p, k, i) \div 8,
                                 fns |-> LengthsBefore(p, k)]
             /\ m.inner[i].ops = Ops(BitsBeforeArg(p, k, i) % 8, cw[i].size, cw[i].endianness)

\* C23: in every impl item pushed, inner accessor and mutator i of a Misc
\* field entered at bit offset b is planned with start bit
\* (b + w1 + ... + w(i-1)) mod 8 and byte offset floor of that sum over 8,
\* followed by the length expressions before the field; and while the driver
\* walks the fields, bit_offset after a Misc field is b + w1 + ... + wn.
C23_PerArgumentOffsets ==
    mode = "gen" =>
        /\ \A i \in ImplItems :
              /\ \A j \in 1..Len(emitted[i].accessors) :
                    emitted[i].accessors[j].fn = "get_misc"
                        => InnerPlanned(ThePacket, emitted[i].accessors[j], AccessorOps)
              /\ \A j \in 1..Len(emitted[i].mutators) :
                    emitted[i].mutators[j].fn = "set_misc"
                        => InnerPlanned(ThePacket, emitted[i].mutators[j], MutatorOps)
        /\ (pc = "impl" /\ impl.idx > 0 /\ CurPacket.fields[impl.idx].ty.kind = "Misc")
              => impl.bit_offset = BitsBeforeArg(CurPacket, impl.idx,
                                       Len(CurPacket.fields[impl.idx].construct_with.val) + 1)

\* a Misc field of two arguments starts at bit 4: its second argument lies
\* in the next byte
C23_Witness ==
    /\ MadePacket
    /\ \E i \in ImplItems :
          /\ emitted[i].mutable
          /\ \E j \in 1..Len(emitted[i].mutators) :
                /\ emitted[i].mutators[j].fn = "set_misc"
                /\ Len(emitted[i].mutators[j].inner) = 2
                /\ emitted[i].mutators[j].inner[1].co.base = 0
                /\ emitted[i].mutators[j].inner[2].co.base = 1

\* the items that carry payload() and payload_mut()
PayloadItems == {i \in 1..Len(emitted) : emitted[i].item \in {"Packet", "MutablePacket"}}

PayloadIndex(p) == CHOOSE k \in 1..Len(p.fields) : p.fields[k].is_payload

\* C24: every Packet and MutablePacket item pushed slices the payload from the
\* CO of the payload field, computed from the fields before it, to
\* CO + packet_length when the payload carries a length expression and to
\* the end of the buffer otherwise; the items of the two views agree.
C24_PayloadBounds ==
    mode = "gen" =>
        \A i \in PayloadItems :
            LET k == PayloadIndex(ThePacket)
                co == ExpectedCO(ThePacket, k)
                len == ThePacket.fields[k].packet_length
            IN /\ emitted[i].payload.start = Some(co)
               /\ emitted[i].payload.end
                     = IF len # None THEN Some([co |-> co, len |-> len.val]) ELSE None
               /\ \A j \in PayloadItems : emitted[j].payload = emitted[i].payload

\* the payload carries a length expression and follows a field with one
C24_Witness ==
    /\ MadePacket
    /\ Cardinality(PayloadItems) = 3
    /\ \E i \in PayloadItems :
          /\ emitted[i].payload.end # None
          /\ emitted[i].payload.start.val.fns # <<>>
    /\ \E i, j \in PayloadItems : emitted[i].name # emitted[j].name

\* C25: every width parse_ty returns, and so every Primitive make_type
\* builds from the name, is within 1..64.
C25_WidthBound ==
    (mode = "ty" /\ ty_ret # Unset /\ ty_ret # None) =>
        /\ ty_ret.val.size \in 1..MaxPrimitiveWidth
        /\ make_type(ty_str).val.size \in 1..MaxPrimitiveWidth

(***************************************************************************)
(* The sizes the emitted code reports.                                     *)
(***************************************************************************)
PacketSizeItems == {i \in 1..Len(emitted) : emitted[i].item = "PacketSize"}

\* C26: in a view over any buffer a length expression is a usize that may be
\* 0, so packet_size(&self) >= minimum_packet_size() in every view means
\* that the constant of the packet_size text is at least
\* minimum_packet_size(); and the two are equal where the text has no
\* length expression.
C26_SizeConsistency ==
    mode = "gen" =>
        \A i \in PacketSizeItems : \A j \in ImplItems :
            /\ emitted[i].size.base >= emitted[j].minimum_packet_size
            /\ emitted[i].size.fns = <<>>
                  => EvalOffset(emitted[i].size) = emitted[j].minimum_packet_size

\* the names of the fields before field k that carry a length expression
RECURSIVE LengthFieldsBefore(_, _)
LengthFieldsBefore(p, k) ==
    IF k <= 1 THEN <<>>
    ELSE LengthFieldsBefore(p, k - 1)
         \o (IF p.fields[k - 1].packet_length # None THEN <<p.fields[k - 1].name>> ELSE <<>>)

\* C29: the text of packet_size(&self) of the views and the text of
\* packet_size(&r) have the same constant and count the same fields in the
\* same order: the view adds the length expression of a field exactly where
\* the record adds the length of that field's vector, the payload included.
C29_RecordSizeEqualsViewSize ==
    mode = "gen" =>
        \A i \in PacketSizeItems : \A j \in ImplItems :
            LET view == emitted[i].size
                rec == emitted[j].packet_size_struct
                n == Len(ThePacket.fields)
            IN /\ view.base = rec.base
               /\ view.fns = LengthsBefore(ThePacket, n + 1)
               /\ [k \in 1..Len(rec.fns) |-> rec.fns[k].name]
                     = LengthFieldsBefore(ThePacket, n + 1)

\* the methods of Vector fields
IsVectorMethod(m) ==
    m.fn \in {"get_raw", "get_raw_mut", "get_vec", "set_vec", "get_vec_misc", "set_vec_misc"}

\* C28: in every impl item pushed, the first byte of a Vector field lies at
\* or after the last bit of the fixed-width fields before it: 8 times the
\* constant of its CO is at least the fixed bits before the field.
C28_VectorStartsAfterFixedBits ==
    mode = "gen" =>
        \A i \in ImplItems :
            /\ \A j \in 1..Len(emitted[i].accessors) :
                  IsVectorMethod(emitted[i].accessors[j]) =>
                      8 * emitted[i].accessors[j].co.base
                          >= BitsBefore(ThePacket, FieldIndex(ThePacket, emitted[i].accessors[j].name))
            /\ \A j \in 1..Len(emitted[i].mutators) :
                  IsVectorMethod(emitted[i].mutators[j]) =>
                      8 * emitted[i].mutators[j].co.base
                          >= BitsBefore(ThePacket, FieldIndex(ThePacket, emitted[i].mutators[j].name))

\* C27: every call of next() on a buffer that is not empty returns a packet
\* and leaves a strictly shorter buffer, and every call on the empty buffer
\* returns None; no call panics.
C27_IteratorProgress ==
    [][(mode = "iter" /\ called' = "next") =>
          /\ ~panicked'
          /\ IF packet = <<>>
             THEN got' = None
             ELSE got' = Some(packet) /\ Len(packet') < Len(packet)]_vars

====
